---- MODULE Spec2Model ----
(***************************************************************************)
(* A model of Diligent::Parsing (Common/interface/ParsingTools.hpp): the   *)
(* cursor scanners, SplitString, Tokenize and BuildSource.                 *)
(*                                                                         *)
(* A source buffer is a sequence of characters; a character is a           *)
(* one-character string, except the embedded terminator '\0', written NUL. *)
(* A position is an index 1..Len(src)+1; End(src) = Len(src)+1 is the      *)
(* one-past-the-end iterator.  A token holds ranges of positions into the  *)
(* buffer, never copies of the text.                                       *)
(***************************************************************************)
EXTENDS Integers, Sequences, FiniteSets, TLC

VARIABLES Src, Pos, OrigPos, Tokens, pc, ErrPos, Result, Out

vars == <<Src, Pos, OrigPos, Tokens, pc, ErrPos, Result, Out>>

----------------------------------------------------------------------------
(* Characters *)

NUL == "NUL"

Digits == {"0", "1", "2", "3", "4", "5", "6", "7", "8", "9"}

Letters ==
    {"a", "b", "c", "d", "e", "f", "g", "h", "i", "j", "k", "l", "m",
     "n", "o", "p", "q", "r", "s", "t", "u", "v", "w", "x", "y", "z",
     "A", "B", "C", "D", "E", "F", "G", "H", "I", "J", "K", "L", "M",
     "N", "O", "P", "Q", "R", "S", "T", "U", "V", "W", "X", "Y", "Z"}

IsNum(c) == c \in Digits

IsAlpha(c) == c \in Letters

IsAlnum(c) == IsAlpha(c) \/ IsNum(c)

IsWhitespace(Symbol) == Symbol = " " \/ Symbol = "\t"

IsNewLine(Symbol) == Symbol = "\r" \/ Symbol = "\n"

\* strchr(" \t\r\n", Symbol) != nullptr: strchr also matches the string's
\* terminating '\0'.
IsDelimiter(Symbol) == Symbol \in {" ", "\t", "\r", "\n", NUL}

End(src) == Len(src) + 1

----------------------------------------------------------------------------
(* Cursor scanners.  Each takes the buffer and the position and returns    *)
(* the final position, with the function's return value where it has one.  *)

RECURSIVE LineEnd(_, _)
LineEnd(src, p) ==
    IF p # End(src) /\ src[p] # NUL /\ ~IsNewLine(src[p])
    THEN LineEnd(src, p + 1)
    ELSE p

\* SkipLine reporting the end also when it stops at a NUL
SkipLineNulIsEnd(src, pos, GoToNextLine) ==
    LET p == LineEnd(src, pos)
        q == IF GoToNextLine /\ p # End(src) /\ IsNewLine(src[p])
             THEN IF src[p] = "\r" /\ p + 1 # End(src) /\ src[p + 1] = "\n"
                  THEN p + 2
                  ELSE p + 1
             ELSE p
    IN  [Pos |-> q, Ret |-> (q = End(src) \/ src[q] = NUL)]

\* SkipLine taking any two newline characters for one line ending
SkipLineAnyPair(src, pos, GoToNextLine) ==
    LET p == LineEnd(src, pos)
        q == IF GoToNextLine /\ p # End(src) /\ IsNewLine(src[p])
             THEN IF p + 1 # End(src) /\ IsNewLine(src[p + 1])
                  THEN p + 2
                  ELSE p + 1
             ELSE p
    IN  [Pos |-> q, Ret |-> (q = End(src))]

SkipLine(src, pos, GoToNextLine) ==
    LET p == LineEnd(src, pos)
        q == IF GoToNextLine /\ p # End(src) /\ IsNewLine(src[p])
             THEN IF src[p] = "\r" /\ p + 1 # End(src) /\ src[p + 1] = "\n"
                  THEN p + 2
                  ELSE p + 1
             ELSE p
    IN  [Pos |-> q, Ret |-> (q = End(src))]

\* The loop of the multi-line branch: the position after the closing "*/",
\* or 0 when the loop ends without finding it (the throw).
RECURSIVE CommentClose(_, _)
CommentClose(src, n) ==
    IF n = End(src) \/ src[n] = NUL
    THEN 0
    ELSE IF src[n] = "*"
         THEN LET m == n + 1
              IN  IF m = End(src) \/ src[m] = NUL
                  THEN 0
                  ELSE IF src[m] = "/" THEN m + 1 ELSE CommentClose(src, m)
         ELSE CommentClose(src, n + 1)

AtEndOrNul(src, p) == p = End(src) \/ src[p] = NUL

\* SkipComment reporting the end of input for a '/' that has no character
\* after it
SkipCommentLoneSlash(src, pos) ==
    IF pos = End(src) \/ src[pos] = NUL
    THEN [Pos |-> pos, Ret |-> TRUE, Throw |-> FALSE]
    ELSE IF src[pos] # "/"
    THEN [Pos |-> pos, Ret |-> FALSE, Throw |-> FALSE]
    ELSE LET NextPos == pos + 1
         IN  IF NextPos = End(src) \/ src[NextPos] = NUL
             THEN [Pos |-> pos, Ret |-> TRUE, Throw |-> FALSE]
             ELSE IF src[NextPos] = "/"
             THEN LET p == SkipLine(src, NextPos + 1, TRUE).Pos
                  IN  [Pos |-> p, Ret |-> AtEndOrNul(src, p), Throw |-> FALSE]
             ELSE IF src[NextPos] = "*"
             THEN LET p == CommentClose(src, NextPos + 1)
                  IN  IF p = 0
                      THEN [Pos |-> pos, Ret |-> FALSE, Throw |-> TRUE]
                      ELSE [Pos |-> p, Ret |-> AtEndOrNul(src, p),
                            Throw |-> FALSE]
             ELSE [Pos |-> pos, Ret |-> AtEndOrNul(src, pos), Throw |-> FALSE]

\* SkipComment calling SkipLine without GoToNextLine
SkipCommentStayOnLine(src, pos) ==
    IF pos = End(src) \/ src[pos] = NUL
    THEN [Pos |-> pos, Ret |-> TRUE, Throw |-> FALSE]
    ELSE IF src[pos] # "/"
    THEN [Pos |-> pos, Ret |-> FALSE, Throw |-> FALSE]
    ELSE LET NextPos == pos + 1
         IN  IF NextPos = End(src) \/ src[NextPos] = NUL
             THEN [Pos |-> pos, Ret |-> FALSE, Throw |-> FALSE]
             ELSE IF src[NextPos] = "/"
             THEN LET p == SkipLine(src, NextPos + 1, FALSE).Pos
                  IN  [Pos |-> p, Ret |-> AtEndOrNul(src, p), Throw |-> FALSE]
             ELSE IF src[NextPos] = "*"
             THEN LET p == CommentClose(src, NextPos + 1)
                  IN  IF p = 0
                      THEN [Pos |-> pos, Ret |-> FALSE, Throw |-> TRUE]
                      ELSE [Pos |-> p, Ret |-> AtEndOrNul(src, p),
                            Throw |-> FALSE]
             ELSE [Pos |-> pos, Ret |-> AtEndOrNul(src, pos), Throw |-> FALSE]

\* SkipComment without the ++NextPos that steps over the opener's '*'
SkipCommentFromStar(src, pos) ==
    IF pos = End(src) \/ src[pos] = NUL
    THEN [Pos |-> pos, Ret |-> TRUE, Throw |-> FALSE]
    ELSE IF src[pos] # "/"
    THEN [Pos |-> pos, Ret |-> FALSE, Throw |-> FALSE]
    ELSE LET NextPos == pos + 1
         IN  IF NextPos = End(src) \/ src[NextPos] = NUL
             THEN [Pos |-> pos, Ret |-> FALSE, Throw |-> FALSE]
             ELSE IF src[NextPos] = "/"
             THEN LET p == SkipLine(src, NextPos + 1, TRUE).Pos
                  IN  [Pos |-> p, Ret |-> AtEndOrNul(src, p), Throw |-> FALSE]
             ELSE IF src[NextPos] = "*"
             THEN LET p == CommentClose(src, NextPos)
                  IN  IF p = 0
                      THEN [Pos |-> pos, Ret |-> FALSE, Throw |-> TRUE]
                      ELSE [Pos |-> p, Ret |-> AtEndOrNul(src, p),
                            Throw |-> FALSE]
             ELSE [Pos |-> pos, Ret |-> AtEndOrNul(src, pos), Throw |-> FALSE]

SkipComment(src, pos) ==
    IF pos = End(src) \/ src[pos] = NUL
    THEN [Pos |-> pos, Ret |-> TRUE, Throw |-> FALSE]
    ELSE IF src[pos] # "/"
    THEN [Pos |-> pos, Ret |-> FALSE, Throw |-> FALSE]
    ELSE LET NextPos == pos + 1
         IN  IF NextPos = End(src) \/ src[NextPos] = NUL
             THEN [Pos |-> pos, Ret |-> FALSE, Throw |-> FALSE]
             ELSE IF src[NextPos] = "/"
             THEN LET p == SkipLine(src, NextPos + 1, TRUE).Pos
                  IN  [Pos |-> p, Ret |-> AtEndOrNul(src, p), Throw |-> FALSE]
             ELSE IF src[NextPos] = "*"
             THEN LET p == CommentClose(src, NextPos + 1)
                  IN  IF p = 0
                      THEN [Pos |-> pos, Ret |-> FALSE, Throw |-> TRUE]
                      ELSE [Pos |-> p, Ret |-> AtEndOrNul(src, p),
                            Throw |-> FALSE]
             ELSE [Pos |-> pos, Ret |-> AtEndOrNul(src, pos), Throw |-> FALSE]

RECURSIVE DelimitersEnd(_, _)
DelimitersEnd(src, p) ==
    IF p # End(src) /\ IsDelimiter(src[p])
    THEN DelimitersEnd(src, p + 1)
    ELSE p

SkipDelimiters(src, pos) ==
    LET p == DelimitersEnd(src, pos)
    IN  [Pos |-> p, Ret |-> (p = End(src))]

\* SkipDelimitersAndComments with the loop's body run once
SkipDelimitersAndCommentsOnce(src, pos) ==
    LET StartPos == DelimitersEnd(src, pos)
        c == SkipComment(src, StartPos)
    IN  IF c.Throw
        THEN [Pos |-> StartPos, Ret |-> FALSE, Throw |-> TRUE,
              ErrPos |-> StartPos, Starts |-> <<pos>>]
        ELSE [Pos |-> c.Pos, Ret |-> (c.Pos = End(src)), Throw |-> FALSE,
              ErrPos |-> 0, Starts |-> <<pos>>]

\* The do-while loop: one iteration skips a run of delimiters and then one
\* comment; it repeats while the end is not reached and either skipped
\* something.  Throw carries SkipComment's exception, ErrPos its position,
\* and Starts lists the value of Pos on entry to each iteration.
RECURSIVE SkipDelimitersAndComments(_, _)
SkipDelimitersAndComments(src, pos) ==
    LET StartPos == DelimitersEnd(src, pos)
        DelimiterSkipped == StartPos # pos
        c == SkipComment(src, StartPos)
        CommentSkipped == StartPos # c.Pos
    IN  IF c.Throw
        THEN [Pos |-> StartPos, Ret |-> FALSE, Throw |-> TRUE,
              ErrPos |-> StartPos, Starts |-> <<pos>>]
        ELSE IF c.Pos # End(src) /\ (DelimiterSkipped \/ CommentSkipped)
        THEN [SkipDelimitersAndComments(src, c.Pos)
                 EXCEPT !.Starts = <<pos>> \o @]
        ELSE [Pos |-> c.Pos, Ret |-> (c.Pos = End(src)), Throw |-> FALSE,
              ErrPos |-> 0, Starts |-> <<pos>>]

RECURSIVE IdentifierEnd(_, _)
IdentifierEnd(src, p) ==
    IF p # End(src) /\ (IsAlnum(src[p]) \/ src[p] = "_")
    THEN IdentifierEnd(src, p + 1)
    ELSE p

SkipIdentifier(src, pos) ==
    IF pos = End(src)
    THEN [Pos |-> pos, Ret |-> TRUE]
    ELSE IF IsAlpha(src[pos]) \/ src[pos] = "_"
    THEN IF pos + 1 = End(src)
         THEN [Pos |-> pos + 1, Ret |-> TRUE]
         ELSE LET p == IdentifierEnd(src, pos + 1)
              IN  [Pos |-> p, Ret |-> (p = End(src))]
    ELSE [Pos |-> pos, Ret |-> FALSE]

RECURSIVE NumEnd(_, _)
NumEnd(src, c) ==
    IF c # End(src) /\ IsNum(src[c]) THEN NumEnd(src, c + 1) ELSE c

\* FloatSuffix taking the 'f' behind any digits
FloatSuffixAfterInteger(src, Start, c, p, HasDecimalPart, HasExponent) ==
    IF c # End(src) /\ p > Start /\ (src[c] = "f" \/ src[c] = "F")
    THEN c + 1
    ELSE p

\* The trailing 'f'/'F' test that ends SkipFloatNumber: c is the scan
\* cursor and p the value of Pos on reaching it.
FloatSuffix(src, Start, c, p, HasDecimalPart, HasExponent) ==
    IF (HasDecimalPart \/ HasExponent) /\ c # End(src) /\ p > Start
       /\ (src[c] = "f" \/ src[c] = "F")
    THEN c + 1
    ELSE p

\* FloatExponent taking digits directly behind the 'e' as well
FloatExponentNoSign(src, Start, c, p, HasIntegerPart, HasDecimalPart) ==
    IF ~HasIntegerPart
    THEN p
    ELSE IF c + 1 = End(src)
    THEN p
    ELSE IF IsNum(src[c + 1])
    THEN LET c2 == NumEnd(src, c + 1)
         IN  FloatSuffix(src, Start, c2, c2, HasDecimalPart, TRUE)
    ELSE IF src[c + 1] # "+" /\ src[c + 1] # "-"
    THEN p
    ELSE IF c + 2 = End(src) \/ ~IsNum(src[c + 2])
    THEN p
    ELSE LET c2 == NumEnd(src, c + 2)
         IN  FloatSuffix(src, Start, c2, c2, HasDecimalPart, TRUE)

\* The exponent block and what follows it; c is at 'e' or 'E'.
FloatExponent(src, Start, c, p, HasIntegerPart, HasDecimalPart) ==
    IF ~HasIntegerPart
    THEN p
    ELSE IF c + 1 = End(src) \/ (src[c + 1] # "+" /\ src[c + 1] # "-")
    THEN p
    ELSE IF c + 2 = End(src) \/ ~IsNum(src[c + 2])
    THEN p
    ELSE LET c2 == NumEnd(src, c + 2)
         IN  FloatSuffix(src, Start, c2, c2, HasDecimalPart, TRUE)

\* FloatDecimal setting Pos behind the '.' without asking for an integer
\* part
FloatDecimalAnyDot(src, Start, c, p, HasIntegerPart) ==
    LET HasDecimalPart == (src[c] = ".")
        c2 == IF HasDecimalPart THEN NumEnd(src, c + 1) ELSE c
        p2 == IF ~HasDecimalPart THEN p
              ELSE IF c2 > c + 1 THEN c2
              ELSE c + 1
    IN  IF HasDecimalPart /\ AtEndOrNul(src, c2)
        THEN p2
        ELSE IF src[c2] = "e" \/ src[c2] = "E"
        THEN FloatExponent(src, Start, c2, p2, HasIntegerPart, HasDecimalPart)
        ELSE FloatSuffix(src, Start, c2, p2, HasDecimalPart, FALSE)

\* From the decimal point on; c is not at the end and not at NUL.
FloatDecimal(src, Start, c, p, HasIntegerPart) ==
    LET HasDecimalPart == (src[c] = ".")
        c2 == IF HasDecimalPart THEN NumEnd(src, c + 1) ELSE c
        p2 == IF ~HasDecimalPart THEN p
              ELSE IF c2 > c + 1 THEN c2
              ELSE IF HasIntegerPart THEN c + 1
              ELSE p
    IN  IF HasDecimalPart /\ AtEndOrNul(src, c2)
        THEN p2
        ELSE IF src[c2] = "e" \/ src[c2] = "E"
        THEN FloatExponent(src, Start, c2, p2, HasIntegerPart, HasDecimalPart)
        ELSE FloatSuffix(src, Start, c2, p2, HasDecimalPart, FALSE)

\* SkipFloatNumber without the test for a '0' followed by a digit
SkipFloatNumberNoZeroTest(src, pos, PastEnd) ==
    IF AtEndOrNul(src, pos)
    THEN pos
    ELSE LET c == IF src[pos] = "+" \/ src[pos] = "-" THEN pos + 1 ELSE pos
         IN  IF AtEndOrNul(src, c)
             THEN pos
             ELSE LET HasIntegerPart == IsNum(src[c])
                      c2 == IF HasIntegerPart THEN NumEnd(src, c) ELSE c
                      p2 == IF HasIntegerPart THEN c2 ELSE pos
                  IN  IF HasIntegerPart /\ AtEndOrNul(src, c2)
                      THEN p2
                      ELSE FloatDecimal(src, pos, c2, p2, HasIntegerPart)

\* SkipFloatNumber moving Pos along with the cursor over the sign
SkipFloatNumberKeepSign(src, pos, PastEnd) ==
    IF AtEndOrNul(src, pos)
    THEN pos
    ELSE LET c == IF src[pos] = "+" \/ src[pos] = "-" THEN pos + 1 ELSE pos
         IN  IF AtEndOrNul(src, c)
             THEN c
             ELSE IF src[c] = "0"
                     /\ IsNum(IF c + 1 = End(src) THEN PastEnd ELSE src[c + 1])
             THEN c + 1
             ELSE LET HasIntegerPart == IsNum(src[c])
                      c2 == IF HasIntegerPart THEN NumEnd(src, c) ELSE c
                      p2 == IF HasIntegerPart THEN c2 ELSE c
                  IN  IF HasIntegerPart /\ AtEndOrNul(src, c2)
                      THEN p2
                      ELSE FloatDecimal(src, c, c2, p2, HasIntegerPart)

\* SkipFloatNumber returns the final position.  The test of c[1] after a
\* '0' reads one past the cursor without comparing it with End: when the
\* '0' is the last character the value read lies outside [Start, End), and
\* PastEnd stands for whatever is there.
SkipFloatNumber(src, pos, PastEnd) ==
    IF AtEndOrNul(src, pos)
    THEN pos
    ELSE LET c == IF src[pos] = "+" \/ src[pos] = "-" THEN pos + 1 ELSE pos
         IN  IF AtEndOrNul(src, c)
             THEN pos
             ELSE IF src[c] = "0"
                     /\ IsNum(IF c + 1 = End(src) THEN PastEnd ELSE src[c + 1])
             THEN c + 1
             ELSE LET HasIntegerPart == IsNum(src[c])
                      c2 == IF HasIntegerPart THEN NumEnd(src, c) ELSE c
                      p2 == IF HasIntegerPart THEN c2 ELSE pos
                  IN  IF HasIntegerPart /\ AtEndOrNul(src, c2)
                      THEN p2
                      ELSE FloatDecimal(src, pos, c2, p2, HasIntegerPart)

\* The position of c[1] when "*c == '0' && IsNum(c[1])" goes on to read
\* it, which it does whenever the first test holds; 0 when c[1] is not
\* read.  Every other read of SkipFloatNumber is at the cursor and stands
\* behind a test of the cursor against End.
ZeroTestRead(src, pos) ==
    IF AtEndOrNul(src, pos)
    THEN 0
    ELSE LET c == IF src[pos] = "+" \/ src[pos] = "-" THEN pos + 1 ELSE pos
         IN  IF AtEndOrNul(src, c)
             THEN 0
             ELSE IF src[c] = "0" THEN c + 1 ELSE 0

----------------------------------------------------------------------------
(* Tokens *)

\* TokenClass{}: the default-constructed token that seeds the sequence.
Sentinel ==
    [Type |-> "Undefined", DelimStart |-> 0, DelimEnd |-> 0,
     LiteralStart |-> 0, LiteralEnd |-> 0]

CreateToken(Type, DelimStart, DelimEnd, LiteralStart, LiteralEnd) ==
    [Type |-> Type, DelimStart |-> DelimStart, DelimEnd |-> DelimEnd,
     LiteralStart |-> LiteralStart, LiteralEnd |-> LiteralEnd]

Literal(src, Token) == SubSeq(src, Token.LiteralStart, Token.LiteralEnd - 1)

Delimiter(src, Token) == SubSeq(src, Token.DelimStart, Token.DelimEnd - 1)

\* Token.CompareLiteral(Str) and Token.CompareLiteral(Start, End)
CompareLiteral(src, Token, Str) == Literal(src, Token) = Str

SetType(Token, Type) == [Token EXCEPT !.Type = Type]

\* Token.ExtendLiteral(Start, End): the literal's end bound is widened
ExtendLiteral(Token, Start, NewEnd) == [Token EXCEPT !.LiteralEnd = NewEnd]

Last(s) == s[Len(s)]

ReplaceLast(s, e) == [s EXCEPT ![Len(s)] = e]

----------------------------------------------------------------------------
(* Tokenize: the handler it passes to SplitString *)

\* MergeAllowed without the test DelimStart == DelimEnd
MergeAllowedAcrossGap(tokens, DelimStart, DelimEnd) == Len(tokens) > 0

\* The guard of both merge attempts: there is a last token and no delimiter
\* or comment lies between it and the current character.
MergeAllowed(tokens, DelimStart, DelimEnd) ==
    Len(tokens) > 0 /\ DelimStart = DelimEnd

\* AddDoubleCharToken comparing the literal with the empty range (Pos, Pos)
AddDoubleCharTokenEmptyRange(src, tokens, DelimStart, DelimEnd, pos, DoubleCharType) ==
    IF MergeAllowed(tokens, DelimStart, DelimEnd)
       /\ CompareLiteral(src, Last(tokens), SubSeq(src, pos, pos - 1))
    THEN [Merged |-> TRUE,
          Tokens |-> ReplaceLast(tokens,
                        ExtendLiteral(SetType(Last(tokens), DoubleCharType),
                                      pos, pos + 1)),
          Pos |-> pos + 1]
    ELSE [Merged |-> FALSE, Tokens |-> tokens, Pos |-> pos]

\* AddDoubleCharToken comparing only the literal's last character
AddDoubleCharTokenLastChar(src, tokens, DelimStart, DelimEnd, pos, DoubleCharType) ==
    IF MergeAllowed(tokens, DelimStart, DelimEnd)
       /\ Len(Literal(src, Last(tokens))) >= 1
       /\ Last(Literal(src, Last(tokens))) = src[pos]
    THEN [Merged |-> TRUE,
          Tokens |-> ReplaceLast(tokens,
                        ExtendLiteral(SetType(Last(tokens), DoubleCharType),
                                      pos, pos + 1)),
          Pos |-> pos + 1]
    ELSE [Merged |-> FALSE, Tokens |-> tokens, Pos |-> pos]

\* AddDoubleCharToken making the merged literal start at Pos
AddDoubleCharTokenMovesStart(src, tokens, DelimStart, DelimEnd, pos, DoubleCharType) ==
    IF MergeAllowed(tokens, DelimStart, DelimEnd)
       /\ CompareLiteral(src, Last(tokens), SubSeq(src, pos, pos))
    THEN [Merged |-> TRUE,
          Tokens |-> ReplaceLast(tokens,
                        [SetType(Last(tokens), DoubleCharType)
                            EXCEPT !.LiteralStart = pos,
                                   !.LiteralEnd = pos + 1]),
          Pos |-> pos + 1]
    ELSE [Merged |-> FALSE, Tokens |-> tokens, Pos |-> pos]

\* The lambda AddDoubleCharToken: Merged is its return value.
AddDoubleCharToken(src, tokens, DelimStart, DelimEnd, pos, DoubleCharType) ==
    IF MergeAllowed(tokens, DelimStart, DelimEnd)
       /\ CompareLiteral(src, Last(tokens), SubSeq(src, pos, pos))
    THEN [Merged |-> TRUE,
          Tokens |-> ReplaceLast(tokens,
                        ExtendLiteral(SetType(Last(tokens), DoubleCharType),
                                      pos, pos + 1)),
          Pos |-> pos + 1]
    ELSE [Merged |-> FALSE, Tokens |-> tokens, Pos |-> pos]

\* The assignment list without the two shifts
AssignmentPrefixesNoShift ==
    {<<"+">>, <<"-">>, <<"*">>, <<"/">>, <<"%">>, <<"&">>, <<"|">>, <<"^">>}

\* +=, -=, *=, /=, %=, <<=, >>=, &=, |=, ^=
AssignmentPrefixes ==
    {<<"+">>, <<"-">>, <<"*">>, <<"/">>, <<"%">>, <<"<", "<">>,
     <<">", ">">>, <<"&">>, <<"|">>, <<"^">>}

\* The comparison list without "!"
ComparisonPrefixesNoNot == {<<"<">>, <<">">>, <<"=">>}

\* <=, >=, ==, !=
ComparisonPrefixes == {<<"<">>, <<">">>, <<"=">>, <<"!">>}

\* case '=' setting the type on a match but neither widening the literal
\* nor advancing Pos
AddAssignTokenStuck(src, tokens, DelimStart, DelimEnd, pos) ==
    IF MergeAllowed(tokens, DelimStart, DelimEnd)
       /\ Literal(src, Last(tokens)) \in AssignmentPrefixes
    THEN [Merged |-> TRUE,
          Tokens |-> ReplaceLast(tokens, SetType(Last(tokens), "Assignment")),
          Pos |-> pos]
    ELSE IF MergeAllowed(tokens, DelimStart, DelimEnd)
            /\ Literal(src, Last(tokens)) \in ComparisonPrefixes
    THEN [Merged |-> TRUE,
          Tokens |-> ReplaceLast(tokens,
                        SetType(Last(tokens), "ComparisonOp")),
          Pos |-> pos]
    ELSE [Merged |-> FALSE, Tokens |-> tokens, Pos |-> pos]

\* case '=': the two loops over the operator lists, tried in this order.
AddAssignToken(src, tokens, DelimStart, DelimEnd, pos) ==
    IF MergeAllowed(tokens, DelimStart, DelimEnd)
       /\ Literal(src, Last(tokens)) \in AssignmentPrefixes
    THEN [Merged |-> TRUE,
          Tokens |-> ReplaceLast(tokens,
                        ExtendLiteral(SetType(Last(tokens), "Assignment"),
                                      pos, pos + 1)),
          Pos |-> pos + 1]
    ELSE IF MergeAllowed(tokens, DelimStart, DelimEnd)
            /\ Literal(src, Last(tokens)) \in ComparisonPrefixes
    THEN [Merged |-> TRUE,
          Tokens |-> ReplaceLast(tokens,
                        ExtendLiteral(SetType(Last(tokens), "ComparisonOp"),
                                      pos, pos + 1)),
          Pos |-> pos + 1]
    ELSE [Merged |-> FALSE, Tokens |-> tokens, Pos |-> pos]

DoubleChars == {"|", "&", "<", ">", "+", "-", ":"}

\* The type each case passes to AddDoubleCharToken
DoubleCharType(c) ==
    CASE c \in {"|", "&"} -> "LogicOp"
      [] c \in {"<", ">"} -> "BitwiseOp"
      [] c \in {"+", "-"} -> "IncDecOp"
      [] c = ":" -> "DoubleColon"

SingleChars ==
    {"=", "|", "&", "<", ">", "+", "-", ":", "~", "^", "*", "/", "%", "!",
     ",", ";", "?", "(", ")", "{", "}", "[", "]"}

\* SINGLE_CHAR_TOKEN(TYPE) of each case
SingleCharType(c) ==
    CASE c = "=" -> "Assignment"
      [] c \in {"|", "&", "~", "^"} -> "BitwiseOp"
      [] c \in {"<", ">"} -> "ComparisonOp"
      [] c \in {"+", "-", "*", "/", "%"} -> "MathOp"
      [] c = ":" -> "Colon"
      [] c = "!" -> "LogicOp"
      [] c = "," -> "Comma"
      [] c = ";" -> "Semicolon"
      [] c = "?" -> "QuestionMark"
      [] c = "(" -> "OpenParen"
      [] c = ")" -> "ClosingParen"
      [] c = "{" -> "OpenBrace"
      [] c = "}" -> "ClosingBrace"
      [] c = "[" -> "OpenSquareBracket"
      [] c = "]" -> "ClosingSquareBracket"

RECURSIVE QuoteEnd(_, _)
QuoteEnd(src, p) ==
    IF p # End(src) /\ src[p] # NUL /\ src[p] # "\""
    THEN QuoteEnd(src, p + 1)
    ELSE p

\* case '"' throwing LiteralStart instead of LiteralStart - 1
StringCaseErrAtLiteral(src, pos) ==
    LET p == QuoteEnd(src, pos + 1)
    IN  IF p = End(src) \/ src[p] # "\""
        THEN [Throw |-> TRUE, ErrPos |-> pos + 1,
              LiteralStart |-> pos + 1, LiteralEnd |-> 0, Pos |-> p]
        ELSE [Throw |-> FALSE, ErrPos |-> 0,
              LiteralStart |-> pos + 1, LiteralEnd |-> p, Pos |-> p + 1]

\* case '"': pos is at the opening quote.
StringCase(src, pos) ==
    LET p == QuoteEnd(src, pos + 1)
    IN  IF p = End(src) \/ src[p] # "\""
        THEN [Throw |-> TRUE, ErrPos |-> (pos + 1) - 1,
              LiteralStart |-> pos + 1, LiteralEnd |-> 0, Pos |-> p]
        ELSE [Throw |-> FALSE, ErrPos |-> 0,
              LiteralStart |-> pos + 1, LiteralEnd |-> p, Pos |-> p + 1]

\* The default case without the final ++Pos for an Undefined character
DefaultCaseNoAdvance(src, pos, Classified, PastEnd) ==
    LET idEnd == SkipIdentifier(src, pos).Pos
        numEnd == SkipFloatNumber(src, pos, PastEnd)
    IN  IF pos # idEnd
        THEN [Type |-> IF Classified = "Undefined" THEN "Identifier"
                       ELSE Classified,
              Pos |-> idEnd]
        ELSE IF pos # numEnd
        THEN [Type |-> "NumericConstant", Pos |-> numEnd]
        ELSE [Type |-> "Undefined", Pos |-> pos]

\* The default case keeping the classifier's Undefined
DefaultCaseKeepUndefined(src, pos, Classified, PastEnd) ==
    LET idEnd == SkipIdentifier(src, pos).Pos
        numEnd == SkipFloatNumber(src, pos, PastEnd)
    IN  IF pos # idEnd
        THEN [Type |-> Classified, Pos |-> idEnd]
        ELSE IF pos # numEnd
        THEN [Type |-> "NumericConstant", Pos |-> numEnd]
        ELSE [Type |-> "Undefined", Pos |-> pos + 1]

\* default: Classified is what GetTokenType returns for the identifier.
DefaultCase(src, pos, Classified, PastEnd) ==
    LET idEnd == SkipIdentifier(src, pos).Pos
        numEnd == SkipFloatNumber(src, pos, PastEnd)
    IN  IF pos # idEnd
        THEN [Type |-> IF Classified = "Undefined" THEN "Identifier"
                       ELSE Classified,
              Pos |-> idEnd]
        ELSE IF pos # numEnd
        THEN [Type |-> "NumericConstant", Pos |-> numEnd]
        ELSE [Type |-> "Undefined", Pos |-> pos + 1]

\* The end of the lambda without "if (LiteralEnd == DelimStart)
\* LiteralEnd = Pos"
PushTokenLiteralUnset(src, tokens, Type, DelimStart, DelimEnd, LiteralStart, LiteralEnd, pos) ==
    [Throw |-> FALSE, ErrPos |-> 0,
     Tokens |-> Append(tokens,
                   CreateToken(Type, DelimStart, DelimEnd, LiteralStart,
                               LiteralEnd)),
     Pos |-> pos, Ret |-> (pos # End(src))]

\* The end of the lambda taking Pos for the end of the delimiters
PushTokenDelimAtPos(src, tokens, Type, DelimStart, DelimEnd, LiteralStart, LiteralEnd, pos) ==
    [Throw |-> FALSE, ErrPos |-> 0,
     Tokens |-> Append(tokens,
                   CreateToken(Type, DelimStart, pos, LiteralStart,
                               IF LiteralEnd = DelimStart THEN pos
                               ELSE LiteralEnd)),
     Pos |-> pos, Ret |-> (pos # End(src))]

\* The end of the lambda: LiteralEnd still holding its initial value
\* DelimStart means "not set by the case", the token is pushed and the
\* splitter continues unless the end is reached.
PushToken(src, tokens, Type, DelimStart, DelimEnd, LiteralStart, LiteralEnd, pos) ==
    [Throw |-> FALSE, ErrPos |-> 0,
     Tokens |-> Append(tokens,
                   CreateToken(Type, DelimStart, DelimEnd, LiteralStart,
                               IF LiteralEnd = DelimStart THEN pos
                               ELSE LiteralEnd)),
     Pos |-> pos, Ret |-> (pos # End(src))]

MergedToken(src, m) ==
    [Throw |-> FALSE, ErrPos |-> 0, Tokens |-> m.Tokens, Pos |-> m.Pos,
     Ret |-> (m.Pos # End(src))]

\* The handler called as Handler(DelimStart, Pos): pos is Pos on entry
\* (DelimEnd and LiteralStart), the result carries Pos on exit, the token
\* sequence, the return value and a thrown error.
Handler(src, tokens, DelimStart, pos, Classified, PastEnd) ==
    IF pos = End(src)
    THEN [Throw |-> FALSE, ErrPos |-> 0,
          Tokens |-> Append(tokens,
                        CreateToken("Undefined", DelimStart, pos, pos, pos)),
          Pos |-> pos, Ret |-> FALSE]
    ELSE IF src[pos] = "#"
    THEN PushToken(src, tokens, "PreprocessorDirective", DelimStart, pos,
                   pos, DelimStart, SkipLine(src, pos, FALSE).Pos)
    ELSE IF src[pos] = "="
    THEN LET m == AddAssignToken(src, tokens, DelimStart, pos, pos)
         IN  IF m.Merged
             THEN MergedToken(src, m)
             ELSE PushToken(src, tokens, "Assignment", DelimStart, pos, pos,
                            DelimStart, pos + 1)
    ELSE IF src[pos] \in DoubleChars
    THEN LET m == AddDoubleCharToken(src, tokens, DelimStart, pos, pos,
                                     DoubleCharType(src[pos]))
         IN  IF m.Merged
             THEN MergedToken(src, m)
             ELSE PushToken(src, tokens, SingleCharType(src[pos]),
                            DelimStart, pos, pos, DelimStart, pos + 1)
    ELSE IF src[pos] \in SingleChars
    THEN PushToken(src, tokens, SingleCharType(src[pos]), DelimStart, pos,
                   pos, DelimStart, pos + 1)
    ELSE IF src[pos] = "\""
    THEN LET q == StringCase(src, pos)
         IN  IF q.Throw
             THEN [Throw |-> TRUE, ErrPos |-> q.ErrPos, Tokens |-> tokens,
                   Pos |-> q.Pos, Ret |-> FALSE]
             ELSE PushToken(src, tokens, "StringConstant", DelimStart, pos,
                            q.LiteralStart, q.LiteralEnd, q.Pos)
    ELSE LET d == DefaultCase(src, pos, Classified, PastEnd)
         IN  PushToken(src, tokens, d.Type, DelimStart, pos, pos, DelimStart,
                       d.Pos)

----------------------------------------------------------------------------
(* BuildSource *)

RECURSIVE BuildFrom(_, _, _)
BuildFrom(src, tokens, i) ==
    IF i > Len(tokens)
    THEN <<>>
    ELSE LET Token == tokens[i]
             Quote == IF Token.Type = "StringConstant" THEN <<"\"">> ELSE <<>>
         IN  Delimiter(src, Token) \o Quote \o Literal(src, Token) \o Quote
                \o BuildFrom(src, tokens, i + 1)

BuildSource(src, tokens) == BuildFrom(src, tokens, 1)

----------------------------------------------------------------------------
(* FindFunction.  Token iterators are indices into the token sequence,     *)
(* End is one past the last token of the range.                            *)

OpenBrackets ==
    {"OpenBrace", "OpenParen", "OpenSquareBracket", "OpenAngleBracket"}

ClosingBrackets ==
    {"ClosingBrace", "ClosingParen", "ClosingSquareBracket",
     "ClosingAngleBracket"}

\* case TokenType::Identifier: the token at Token is the function's name
IsFunctionName(src, tokens, Start, EndToken, Name, Token, BracketCount) ==
    /\ BracketCount = 0
    /\ CompareLiteral(src, tokens[Token], Name)
    /\ Token + 1 # EndToken
    /\ tokens[Token + 1].Type = "OpenParen"
    /\ Token # Start
    /\ tokens[Token - 1].Type = "Identifier"

\* The loop without the test BracketCount == 0
RECURSIVE FindFunctionLoopAnyDepth(_, _, _, _, _, _, _)
FindFunctionLoopAnyDepth(src, tokens, Start, EndToken, Name, Token, BracketCount) ==
    IF Token = EndToken
    THEN [Ret |-> EndToken, Unbalanced |-> 0]
    ELSE IF tokens[Token].Type \in OpenBrackets
    THEN FindFunctionLoopAnyDepth(src, tokens, Start, EndToken, Name,
                                  Token + 1, BracketCount + 1)
    ELSE IF tokens[Token].Type \in ClosingBrackets
    THEN IF BracketCount - 1 < 0
         THEN [Ret |-> EndToken, Unbalanced |-> Token]
         ELSE FindFunctionLoopAnyDepth(src, tokens, Start, EndToken, Name,
                                       Token + 1, BracketCount - 1)
    ELSE IF tokens[Token].Type = "Identifier"
            /\ IsFunctionName(src, tokens, Start, EndToken, Name, Token, 0)
    THEN [Ret |-> Token, Unbalanced |-> 0]
    ELSE FindFunctionLoopAnyDepth(src, tokens, Start, EndToken, Name,
                                  Token + 1, BracketCount)

\* The loop logging an imbalance also when it ends with brackets open
RECURSIVE FindFunctionLoopLogOpen(_, _, _, _, _, _, _)
FindFunctionLoopLogOpen(src, tokens, Start, EndToken, Name, Token, BracketCount) ==
    IF Token = EndToken
    THEN [Ret |-> EndToken,
          Unbalanced |-> IF BracketCount > 0 THEN EndToken ELSE 0]
    ELSE IF tokens[Token].Type \in OpenBrackets
    THEN FindFunctionLoopLogOpen(src, tokens, Start, EndToken, Name,
                                 Token + 1, BracketCount + 1)
    ELSE IF tokens[Token].Type \in ClosingBrackets
    THEN IF BracketCount - 1 < 0
         THEN [Ret |-> EndToken, Unbalanced |-> Token]
         ELSE FindFunctionLoopLogOpen(src, tokens, Start, EndToken, Name,
                                      Token + 1, BracketCount - 1)
    ELSE IF tokens[Token].Type = "Identifier"
            /\ IsFunctionName(src, tokens, Start, EndToken, Name, Token,
                              BracketCount)
    THEN [Ret |-> Token, Unbalanced |-> 0]
    ELSE FindFunctionLoopLogOpen(src, tokens, Start, EndToken, Name,
                                 Token + 1, BracketCount)

\* The loop going on after a negative BracketCount
RECURSIVE FindFunctionLoopKeepGoing(_, _, _, _, _, _, _)
FindFunctionLoopKeepGoing(src, tokens, Start, EndToken, Name, Token, BracketCount) ==
    IF Token = EndToken
    THEN [Ret |-> EndToken, Unbalanced |-> 0]
    ELSE IF tokens[Token].Type \in OpenBrackets
    THEN FindFunctionLoopKeepGoing(src, tokens, Start, EndToken, Name,
                                   Token + 1, BracketCount + 1)
    ELSE IF tokens[Token].Type \in ClosingBrackets
    THEN FindFunctionLoopKeepGoing(src, tokens, Start, EndToken, Name,
                                   Token + 1, BracketCount - 1)
    ELSE IF tokens[Token].Type = "Identifier"
            /\ IsFunctionName(src, tokens, Start, EndToken, Name, Token,
                              BracketCount)
    THEN [Ret |-> Token, Unbalanced |-> 0]
    ELSE FindFunctionLoopKeepGoing(src, tokens, Start, EndToken, Name,
                                   Token + 1, BracketCount)

\* for (auto Token = Start; Token != End; ++Token): Ret is the iterator
\* returned, Unbalanced the token at which "Brackets are not correctly
\* balanced" is logged, 0 when nothing is logged.
RECURSIVE FindFunctionLoop(_, _, _, _, _, _, _)
FindFunctionLoop(src, tokens, Start, EndToken, Name, Token, BracketCount) ==
    IF Token = EndToken
    THEN [Ret |-> EndToken, Unbalanced |-> 0]
    ELSE IF tokens[Token].Type \in OpenBrackets
    THEN FindFunctionLoop(src, tokens, Start, EndToken, Name, Token + 1,
                          BracketCount + 1)
    ELSE IF tokens[Token].Type \in ClosingBrackets
    THEN IF BracketCount - 1 < 0
         THEN [Ret |-> EndToken, Unbalanced |-> Token]
         ELSE FindFunctionLoop(src, tokens, Start, EndToken, Name,
                               Token + 1, BracketCount - 1)
    ELSE IF tokens[Token].Type = "Identifier"
            /\ IsFunctionName(src, tokens, Start, EndToken, Name, Token,
                              BracketCount)
    THEN [Ret |-> Token, Unbalanced |-> 0]
    ELSE FindFunctionLoop(src, tokens, Start, EndToken, Name, Token + 1,
                          BracketCount)

\* Name is a string; an empty Name is refused.
FindFunction(src, tokens, Start, EndToken, Name) ==
    IF Name = <<>>
    THEN [Ret |-> EndToken, Unbalanced |-> 0]
    ELSE FindFunctionLoop(src, tokens, Start, EndToken, Name, Start, 0)

----------------------------------------------------------------------------
(* The inputs *)

MaxLen == 4

MaxOpLen == 3

MaxLiveLen == 3

Alphabet ==
    {"a", "1", ".", " ", "\n", "/", "*", "\"", "=", "+", "#", NUL}

OpAlphabet ==
    {"+", "-", "*", "/", "%", "<", ">", "&", "|", "^", "=", "!", ":",
     "\"", " ", "a"}

SeqsUpTo(S, n) == UNION {[1..k -> S] : k \in 0..n}

\* The examples of operator merging
Examples ==
    {<<"a", " ", "+", "=", " ", "1">>,
     <<"+", "/", "*", "*", "/", "=">>,
     <<"a", "<", "<", "=", "1">>,
     <<"a", ">", ">", "=", "1">>,
     <<"\"", "+", "\"", "=">>,
     <<"\"", "+", "\"", "+">>,
     <<"\"", "=", "\"", "=">>,
     <<"+", "+", "+", "+", "+">>,
     <<"a", "<", "<", "<", "<">>,
     <<"a", ":", ":", "a">>}

\* What a classifier may answer for an identifier: Undefined, or a type of
\* the caller's own.
ClassifierTypes == {"Undefined", "Keyword"}

\* GetTokenType is called only when SkipIdentifier has consumed something.
ClassifierAnswers(src, pos) ==
    IF pos # End(src) /\ (IsAlpha(src[pos]) \/ src[pos] = "_")
    THEN ClassifierTypes
    ELSE {"Undefined"}

\* What a read one past the end of the buffer may yield: a digit or not.
PastEndChars == {NUL, "1"}

\* SkipFloatNumber reads c[1] past the end only when the buffer ends with
\* the '0' the literal starts with.
PastEndReads(src, pos) ==
    IF pos # End(src) /\ pos + 1 = End(src) /\ src[pos] = "0"
    THEN PastEndChars
    ELSE {NUL}

----------------------------------------------------------------------------
(* Tokenize as SplitString drives it, then BuildSource on its result.       *)
(* gap is the result of the skip that starts an iteration and h that of    *)
(* the handler call; each is evaluated once and bound by a quantifier      *)
(* over a one-element set.                                                 *)

InitOn(inputs) ==
    /\ Src \in inputs
    /\ Pos = 1
    /\ OrigPos = 0
    /\ Tokens = <<Sentinel>>
    /\ pc = "split"
    /\ ErrPos = 0
    /\ Result = <<>>
    /\ Out = <<>>

Init == InitOn(SeqsUpTo(Alphabet, MaxLen))

InitOps == InitOn(SeqsUpTo(OpAlphabet, MaxOpLen) \cup Examples)

\* while (Pos != End) is false: SplitString returns, Tokenize returns Tokens
SplitExit ==
    /\ pc = "split"
    /\ Pos = End(Src)
    /\ pc' = "done"
    /\ Result' = Tokens
    /\ UNCHANGED <<Src, Pos, OrigPos, Tokens, ErrPos, Out>>

\* SkipDelimitersAndComments throws: Tokenize logs the context and throws
SplitThrow ==
    /\ pc = "split"
    /\ Pos # End(Src)
    /\ \E gap \in {SkipDelimitersAndComments(Src, Pos)} :
           /\ gap.Throw
           /\ pc' = "failed"
           /\ ErrPos' = gap.ErrPos
           /\ Pos' = gap.Pos
    /\ UNCHANGED <<Src, OrigPos, Tokens, Result, Out>>

\* The handler throws and the tokens pushed so far are handed back
HandlerThrowPartial ==
    /\ pc = "split"
    /\ Pos # End(Src)
    /\ \E gap \in {SkipDelimitersAndComments(Src, Pos)} :
           /\ ~gap.Throw
           /\ \E Classified \in ClassifierAnswers(Src, gap.Pos),
                 PastEnd \in PastEndReads(Src, gap.Pos) :
                \E h \in {Handler(Src, Tokens, Pos, gap.Pos, Classified,
                                 PastEnd)} :
                    /\ h.Throw
                    /\ pc' = "failed"
                    /\ ErrPos' = h.ErrPos
                    /\ Pos' = h.Pos
                    /\ OrigPos' = gap.Pos
    /\ Result' = Tokens
    /\ UNCHANGED <<Src, Tokens, Out>>

\* The handler throws
HandlerThrow ==
    /\ pc = "split"
    /\ Pos # End(Src)
    /\ \E gap \in {SkipDelimitersAndComments(Src, Pos)} :
           /\ ~gap.Throw
           /\ \E Classified \in ClassifierAnswers(Src, gap.Pos),
                 PastEnd \in PastEndReads(Src, gap.Pos) :
                \E h \in {Handler(Src, Tokens, Pos, gap.Pos, Classified,
                                 PastEnd)} :
                    /\ h.Throw
                    /\ pc' = "failed"
                    /\ ErrPos' = h.ErrPos
                    /\ Pos' = h.Pos
                    /\ OrigPos' = gap.Pos
    /\ UNCHANGED <<Src, Tokens, Result, Out>>

\* One iteration of the loop whose handler returns true
SplitStep ==
    /\ pc = "split"
    /\ Pos # End(Src)
    /\ \E gap \in {SkipDelimitersAndComments(Src, Pos)} :
           /\ ~gap.Throw
           /\ \E Classified \in ClassifierAnswers(Src, gap.Pos),
                 PastEnd \in PastEndReads(Src, gap.Pos) :
                \E h \in {Handler(Src, Tokens, Pos, gap.Pos, Classified,
                                 PastEnd)} :
                    /\ ~h.Throw
                    /\ h.Ret
                    /\ Tokens' = h.Tokens
                    /\ Pos' = h.Pos
                    /\ OrigPos' = gap.Pos
    /\ UNCHANGED <<Src, pc, ErrPos, Result, Out>>

\* One iteration whose handler returns false: the loop breaks and Tokenize
\* returns Tokens
SplitStop ==
    /\ pc = "split"
    /\ Pos # End(Src)
    /\ \E gap \in {SkipDelimitersAndComments(Src, Pos)} :
           /\ ~gap.Throw
           /\ \E Classified \in ClassifierAnswers(Src, gap.Pos),
                 PastEnd \in PastEndReads(Src, gap.Pos) :
                \E h \in {Handler(Src, Tokens, Pos, gap.Pos, Classified,
                                 PastEnd)} :
                    /\ ~h.Throw
                    /\ ~h.Ret
                    /\ Tokens' = h.Tokens
                    /\ Pos' = h.Pos
                    /\ OrigPos' = gap.Pos
                    /\ Result' = h.Tokens
    /\ pc' = "done"
    /\ UNCHANGED <<Src, ErrPos, Out>>

\* The caller rebuilds the source from the returned tokens
Build ==
    /\ pc = "done"
    /\ Out' = BuildSource(Src, Result)
    /\ pc' = "built"
    /\ UNCHANGED <<Src, Pos, OrigPos, Tokens, ErrPos, Result>>

Next == SplitExit \/ SplitThrow \/ HandlerThrow \/ SplitStep \/ SplitStop \/ Build

Spec == Init /\ [][Next]_vars

SpecOps == InitOps /\ [][Next]_vars

\* Tokenize is one synchronous call: it keeps running until it returns or
\* throws.
InitLive == InitOn(SeqsUpTo(Alphabet, MaxLiveLen))

FairSpec == InitLive /\ [][Next]_vars /\ WF_vars(Next)

----------------------------------------------------------------------------
(* The scanners called on their own.  A caller holds a buffer and a        *)
(* position and calls one scanner after another; Pos is the position it    *)
(* passes by reference, OrigPos the value of Pos before the last call, pc  *)
(* the scanner called last, Result its return value (empty for a void     *)
(* scanner and for a throw) and ErrPos the position carried by the         *)
(* exception, 0 when nothing was thrown.                                   *)

MaxScanLen == 4

MaxFloatLen == 4

ScanAlphabet == {"/", "*", "\n", "\r", " ", "a", NUL}

FloatAlphabet == {"0", "1", ".", "+", "e", "f", NUL}

ScanExamples ==
    {<<"/", "/", " ", "a", "\n", "b">>,
     <<"/", "*", " ", "a", " ", "*", "/", "b">>,
     <<"/", "*", " ", "a">>,
     <<"/", "*", "*", "*", "/", "a">>,
     <<"/", "*", "a", NUL, "*", "/">>,
     <<"/", "/", "a", "\r", "\n", "\n", "b">>,
     <<"/", "*", " ", "c", "1", " ", "*", "/", " ", " ", " ", "/", "/", " ",
       "c", "2", "\n", " ", " ", " ", "x">>,
     <<"\t", "\t", "a">>,
     <<".", "5">>, <<"+", ".", "5">>, <<"-", ".", "5">>, <<"-", ".">>,
     <<"-", "0", ".">>, <<"0", "0", ".", "5">>, <<"-", "0", "1">>,
     <<"1", "e", "+", "3">>, <<"1", "e", "3">>, <<"1", "E", "-", "3", "F">>,
     <<"1", ".", "2", "e", "-", "3", "f">>, <<"1", ".", "e", "+", "3", "f">>,
     <<"1", "0", ".", "4", "e", "+", "3", "f">>}

ScanInputs ==
    SeqsUpTo(ScanAlphabet, MaxScanLen) \cup SeqsUpTo(FloatAlphabet, MaxFloatLen)
        \cup ScanExamples

InitScan ==
    /\ Src \in ScanInputs
    /\ Pos \in 1..End(Src)
    /\ OrigPos = 0
    /\ Tokens = <<>>
    /\ pc = "ready"
    /\ ErrPos = 0
    /\ Result = <<>>
    /\ Out = <<>>

\* What a call leaves behind: the scanner's name, the position before and
\* after, and the value returned.
Returned(name, r) ==
    /\ pc' = name
    /\ OrigPos' = Pos
    /\ Pos' = r.Pos
    /\ Result' = <<r.Ret>>
    /\ UNCHANGED <<Src, Tokens, ErrPos, Out>>

\* A call that throws leaves the caller's position as the scanner left it.
Thrown(name, p, e) ==
    /\ pc' = name
    /\ OrigPos' = Pos
    /\ Pos' = p
    /\ ErrPos' = e
    /\ Result' = <<>>
    /\ UNCHANGED <<Src, Tokens, Out>>

CallSkipLine ==
    /\ ErrPos = 0
    /\ \E r \in {SkipLine(Src, Pos, FALSE)} : Returned("SkipLine", r)

CallSkipLineGoToNextLine ==
    /\ ErrPos = 0
    /\ \E r \in {SkipLine(Src, Pos, TRUE)} :
           Returned("SkipLine GoToNextLine", r)

CallSkipComment ==
    /\ ErrPos = 0
    /\ \E r \in {SkipComment(Src, Pos)} :
           IF r.Throw
           THEN Thrown("SkipComment", r.Pos, Pos)
           ELSE Returned("SkipComment", r)

CallSkipDelimiters ==
    /\ ErrPos = 0
    /\ \E r \in {SkipDelimiters(Src, Pos)} : Returned("SkipDelimiters", r)

CallSkipDelimitersAndComments ==
    /\ ErrPos = 0
    /\ \E r \in {SkipDelimitersAndComments(Src, Pos)} :
           IF r.Throw
           THEN Thrown("SkipDelimitersAndComments", r.Pos, r.ErrPos)
           ELSE Returned("SkipDelimitersAndComments", r)

CallSkipIdentifier ==
    /\ ErrPos = 0
    /\ \E r \in {SkipIdentifier(Src, Pos)} : Returned("SkipIdentifier", r)

\* SkipFloatNumber returns nothing.
CallSkipFloatNumber ==
    /\ ErrPos = 0
    /\ \E PastEnd \in PastEndChars :
           \E p \in {SkipFloatNumber(Src, Pos, PastEnd)} :
               /\ pc' = "SkipFloatNumber"
               /\ OrigPos' = Pos
               /\ Pos' = p
               /\ Result' = <<>>
               /\ UNCHANGED <<Src, Tokens, ErrPos, Out>>

NextScan ==
    \/ CallSkipLine
    \/ CallSkipLineGoToNextLine
    \/ CallSkipComment
    \/ CallSkipDelimiters
    \/ CallSkipDelimitersAndComments
    \/ CallSkipIdentifier
    \/ CallSkipFloatNumber

SpecScan == InitScan /\ [][NextScan]_vars

----------------------------------------------------------------------------
(* FindFunction called on the tokens Tokenize has returned.  The caller    *)
(* may first re-tag the lone '<' and '>' tokens as angle brackets.  After  *)
(* the call, Out is the Name searched for, OrigPos the Start iterator, Pos *)
(* the iterator returned and ErrPos the token at which an imbalance was    *)
(* logged, 0 when none was; the range always ends at the sequence's end.   *)

MaxFindLen == 4

FindAlphabet == {"f", "g", "(", ")", "{", "}", " "}

FindExamples ==
    {<<"i", "n", "t", " ", "f", "o", "o", "(", "i", "n", "t", " ", "x", ")",
       " ", "{", " ", "b", "a", "r", "(", ")", ";", " ", "}", " ", "i", "n",
       "t", " ", "b", "a", "r", "(", ")", " ", "{", "}">>,
     <<"i", "n", "t", " ", "f", "o", "o", "(", " ", "{", " ">>,
     <<")", "f", " ", "g", "(">>,
     <<"]", "f", " ", "g", "(">>,
     <<">", "f", " ", "g", "(">>,
     <<"<", "f", " ", "g", "(">>,
     <<"<", "]", "f", " ", "g", "(">>,
     <<"(", "}", "f", " ", "g", "(">>,
     <<"{", "f", " ", "g", "(", ")", "}">>,
     <<"{", "}", "f", " ", "g", "(">>,
     <<"f", " ", "g", "{", "f", " ", "g", "(">>,
     <<"g", "(", "f", " ", "g", "(">>,
     <<"g", "(", ")", "f", " ", "g", "(">>,
     <<")", "(", "f", " ", "g", "(">>,
     <<"}", "{", "f", " ", "g", "(">>,
     <<"f", " ", "g", "(", "/", "*">>,
     <<"f", " ", "g", "(", "\"">>}

FindNames == {<<"g">>, <<"f", "o", "o">>, <<"b", "a", "r">>, <<>>}

InitFind == InitOn(SeqsUpTo(FindAlphabet, MaxFindLen) \cup FindExamples)

IsAngle(src, Token) ==
    /\ Token.Type = "ComparisonOp"
    /\ Literal(src, Token) \in {<<"<">>, <<">">>}

Retagged(src, Token) ==
    IF IsAngle(src, Token)
    THEN SetType(Token, IF Literal(src, Token) = <<"<">>
                        THEN "OpenAngleBracket"
                        ELSE "ClosingAngleBracket")
    ELSE Token

RetagAngleBrackets ==
    /\ pc = "done"
    /\ \E i \in 1..Len(Result) : IsAngle(Src, Result[i])
    /\ Result' = [i \in 1..Len(Result) |-> Retagged(Src, Result[i])]
    /\ UNCHANGED <<Src, Pos, OrigPos, Tokens, pc, ErrPos, Out>>

CallFindFunction ==
    /\ pc = "done"
    /\ \E Name \in FindNames, Start \in 1..(Len(Result) + 1) :
           \E r \in {FindFunction(Src, Result, Start, Len(Result) + 1, Name)} :
               /\ pc' = "FindFunction"
               /\ Out' = Name
               /\ OrigPos' = Start
               /\ Pos' = r.Ret
               /\ ErrPos' = r.Unbalanced
    /\ UNCHANGED <<Src, Tokens, Result>>

NextFind == Next \/ RetagAngleBrackets \/ CallFindFunction

SpecFind == InitFind /\ [][NextFind]_vars

----------------------------------------------------------------------------
(* Properties of Tokenize and BuildSource *)

LiteralEmpty(Token) == Token.LiteralEnd <= Token.LiteralStart

\* C1: whenever Tokenize returns, BuildSource of the returned tokens is the
\* input text, character for character.
RoundTrip == pc = "built" => Out = Src

\* C2: Tokenize terminates: it eventually returns a token sequence or
\* signals the failure, whatever the input and the classifier's answers.
Termination == <>(pc # "split")

TerminationWitness == pc = "done" /\ Len(Src) = 1 /\ Len(Result) = 2

\* C3: when the handler is called at OrigPos, not at the end, and returns
\* true, the position it leaves is strictly greater than OrigPos, so the
\* splitter's VERIFY(Pos == End || OrigPos != Pos) holds.
HandlerProgress ==
    (pc = "split" /\ OrigPos # 0)
        => /\ OrigPos < Pos
           /\ (Pos = End(Src) \/ OrigPos # Pos)

HandlerProgressWitness ==
    pc = "split" /\ OrigPos # 0 /\ OrigPos # End(Src) /\ Len(Tokens) >= 3

\* C9 as stated: in a returned sequence only the sentinel has an empty
\* literal.
NonEmptyLiterals ==
    pc = "done" => \A i \in 2..Len(Result) : ~LiteralEmpty(Result[i])

\* A StringConstant made from "": both bounds lie between the two quotes.
IsEmptyString(src, Token) ==
    /\ Token.Type = "StringConstant"
    /\ Token.LiteralStart = Token.LiteralEnd
    /\ src[Token.LiteralStart - 1] = "\""
    /\ src[Token.LiteralEnd] = "\""

\* The token the handler pushes when the gap reaches the end of input: it
\* carries the trailing delimiters and comments and has no literal.
IsTrailingToken(src, Token) ==
    /\ Token.Type = "Undefined"
    /\ Token.DelimStart < Token.DelimEnd
    /\ Token.DelimEnd = End(src)
    /\ Token.LiteralStart = End(src)
    /\ Token.LiteralEnd = End(src)

\* C9, amended: at every point of tokenization a token with an empty
\* literal is the sentinel, the StringConstant of an empty string "", or
\* the last token of a finished sequence carrying only trailing delimiters
\* and comments; every other token has at least one literal character.
EmptyLiteralsOnly ==
    \A i \in 2..Len(Tokens) :
        LiteralEmpty(Tokens[i])
            => \/ IsEmptyString(Src, Tokens[i])
               \/ /\ i = Len(Tokens)
                  /\ pc \in {"done", "built"}
                  /\ IsTrailingToken(Src, Tokens[i])

EmptyLiteralsWitness ==
    /\ pc = "done"
    /\ Result = Tokens
    /\ Len(Result) = 4
    /\ ~LiteralEmpty(Result[2])
    /\ IsEmptyString(Src, Result[3])
    /\ IsTrailingToken(Src, Result[4])

\* C10: the token sequence is never empty and its first element is always
\* the default-constructed sentinel, also in the returned sequence; for
\* the empty input the result is the sentinel alone.
SentinelFirst ==
    /\ Len(Tokens) >= 1
    /\ Tokens[1] = Sentinel
    /\ pc \in {"done", "built"}
          => /\ Len(Result) >= 1
             /\ Result[1] = Sentinel
             /\ (Src = <<>> => Result = <<Sentinel>>)

SentinelWitness ==
    /\ pc = "done"
    /\ Len(Src) >= 2
    /\ Src[1] = "="
    /\ Len(Result) >= 2
    /\ Result[1] = Sentinel

----------------------------------------------------------------------------
(* Properties of the operator merges.  They speak of one iteration of the  *)
(* splitter: in the state before it, Gap is what the skip will return and  *)
(* CalledAt(c) says the handler will be called at a character c.           *)

Gap == SkipDelimitersAndComments(Src, Pos)

CalledAt(c) ==
    /\ pc = "split"
    /\ Pos # End(Src)
    /\ ~Gap.Throw
    /\ Gap.Pos # End(Src)
    /\ Src[Gap.Pos] = c

ZeroGap == Gap.Pos = Pos

LastLiteral == Literal(Src, Last(Tokens))

\* The last token retyped and widened over the character at Pos, nothing
\* appended; its text is the old text and that character when the
\* character directly follows the old literal.
MergedInto(Type) ==
    /\ pc' # "failed"
    /\ Len(Tokens') = Len(Tokens)
    /\ Tokens' = ReplaceLast(Tokens,
                    [Last(Tokens) EXCEPT !.Type = Type,
                                         !.LiteralEnd = Pos + 1])
    /\ Last(Tokens).LiteralEnd = Pos
          => Literal(Src, Last(Tokens')) = LastLiteral \o <<Src[Pos]>>
    /\ Pos' = Pos + 1

\* The tokens so far unchanged and one token appended: the single
\* character at the end of the gap, with the gap as its delimiter.
AppendedAs(Type) ==
    /\ pc' # "failed"
    /\ Tokens' = Append(Tokens,
                    [Type |-> Type, DelimStart |-> Pos, DelimEnd |-> Gap.Pos,
                     LiteralStart |-> Gap.Pos, LiteralEnd |-> Gap.Pos + 1])
    /\ Pos' = Gap.Pos + 1

TypesOf(tokens) == [i \in 1..Len(tokens) |-> tokens[i].Type]

LiteralsOf(src, tokens) == [i \in 1..Len(tokens) |-> Literal(src, tokens[i])]

IdentifierTypes == {"Identifier", "Keyword"}

CompoundOps ==
    {<<"+">>, <<"-">>, <<"*">>, <<"/">>, <<"%">>, <<"<", "<">>,
     <<">", ">">>, <<"&">>, <<"|">>, <<"^">>}

ComparisonStarts == {<<"<">>, <<">">>, <<"=">>, <<"!">>}

CompoundAssignStep ==
    (CalledAt("=") /\ ZeroGap /\ LastLiteral \in CompoundOps)
        => MergedInto("Assignment")

CompoundAssignExample ==
    (pc = "done" /\ Src = <<"a", " ", "+", "=", " ", "1">>)
        => /\ Len(Result) = 4
           /\ Result[2].Type \in IdentifierTypes
           /\ Result[3].Type = "Assignment"
           /\ Result[4].Type = "NumericConstant"
           /\ LiteralsOf(Src, Result) = <<<<>>, <<"a">>, <<"+", "=">>, <<"1">>>>

ComparisonStep ==
    /\ (CalledAt("=") /\ ZeroGap /\ LastLiteral \in ComparisonStarts
           /\ LastLiteral \notin CompoundOps)
          => MergedInto("ComparisonOp")
    /\ (CalledAt("=")
           /\ ~(ZeroGap /\ LastLiteral \in CompoundOps \cup ComparisonStarts))
          => AppendedAs("Assignment")

ComparisonExample ==
    (pc = "done" /\ Src = <<"=", "=", "=">>)
        => /\ TypesOf(Result) = <<"Undefined", "ComparisonOp", "Assignment">>
           /\ LiteralsOf(Src, Result) = <<<<>>, <<"=", "=">>, <<"=">>>>

MergingChars == {"=", "|", "&", "<", ">", "+", "-", ":"}

SingleTypeOf(c) ==
    CASE c = "=" -> "Assignment"
      [] c \in {"|", "&"} -> "BitwiseOp"
      [] c \in {"<", ">"} -> "ComparisonOp"
      [] c \in {"+", "-"} -> "MathOp"
      [] c = ":" -> "Colon"

DoubleTypeOf(c) ==
    CASE c \in {"|", "&"} -> "LogicOp"
      [] c \in {"<", ">"} -> "BitwiseOp"
      [] c \in {"+", "-"} -> "IncDecOp"
      [] c = ":" -> "DoubleColon"

GapStep ==
    \A c \in MergingChars :
        (CalledAt(c) /\ ~ZeroGap) => AppendedAs(SingleTypeOf(c))

GapExamples ==
    /\ (pc = "done" /\ Src \in {<<"+", " ", "=">>,
                                <<"+", "/", "*", "*", "/", "=">>})
          => /\ TypesOf(Result) = <<"Undefined", "MathOp", "Assignment">>
             /\ LiteralsOf(Src, Result) = <<<<>>, <<"+">>, <<"=">>>>
    /\ (pc = "done" /\ Src = <<"<", " ", "<">>)
          => /\ TypesOf(Result) = <<"Undefined", "ComparisonOp", "ComparisonOp">>
             /\ LiteralsOf(Src, Result) = <<<<>>, <<"<">>, <<"<">>>>

\* C6: an operator character separated from the previous token by at
\* least one delimiter or comment character leaves every earlier token as
\* it is and is appended as a new one-character token.
NoMergeAcrossGap == []GapExamples /\ [][GapStep]_vars

NoMergeAcrossGapWitness ==
    /\ pc = "done"
    /\ Src = <<"+", "/", "*", "*", "/", "=">>
    /\ Len(Result) = 3
    /\ Result[3].DelimStart = 2
    /\ Result[3].DelimEnd = 6

DoubledStep ==
    \A c \in MergingChars \ {"="} :
        /\ (CalledAt(c) /\ ZeroGap /\ LastLiteral = <<c>>)
              => MergedInto(DoubleTypeOf(c))
        /\ (CalledAt(c) /\ ~(ZeroGap /\ LastLiteral = <<c>>))
              => AppendedAs(SingleTypeOf(c))

\* The input is j letters 'a' followed by n copies of c and nothing else.
IsRunAfter(src, j, c) ==
    /\ Len(src) > j
    /\ \A i \in 1..Len(src) : src[i] = IF i <= j THEN "a" ELSE c

DoubledRuns ==
    \A c \in MergingChars \ {"="}, j \in {0, 1} :
        (pc = "done" /\ IsRunAfter(Src, j, c))
            => LET n == Len(Src) - j
                   first == IF j = 0 THEN 1 ELSE 2
               IN  /\ Len(Result) = first + (n + 1) \div 2
                   /\ \A k \in 1..(n \div 2) :
                        /\ Result[first + k].Type = DoubleTypeOf(c)
                        /\ Literal(Src, Result[first + k]) = <<c, c>>
                   /\ n % 2 = 1
                         => /\ Last(Result).Type = SingleTypeOf(c)
                            /\ Literal(Src, Last(Result)) = <<c>>

\* C7: for c among | & < > + - : the handler merges c into the previous
\* token exactly when there is no gap and that token's whole literal is
\* the one character c, making it the doubled operator, and otherwise
\* appends c as a one-character token; so a run of n copies of c gives
\* n/2 doubled tokens and one single token when n is odd.
DoubledOperators == []DoubledRuns /\ [][DoubledStep]_vars

DoubledWitness ==
    /\ pc = "done"
    /\ Src = <<"a", "+", "+">>
    /\ Len(Result) = 3
    /\ Result[3].Type = "IncDecOp"

StringKeptStep ==
    \A c \in MergingChars :
        (CalledAt(c) /\ ZeroGap /\ Last(Tokens).Type = "StringConstant")
            => AppendedAs(SingleTypeOf(c))

\* C8: a StringConstant followed directly by '=' or by an operator
\* character keeps its type and literal, whatever its text, and the
\* character becomes a token of its own.
StringNeverMerged == [][StringKeptStep]_vars

----------------------------------------------------------------------------
(* Properties of the scanners.  After a call, OrigPos is the position the  *)
(* scanner was called at and Pos the position it left.                     *)

After(name) == pc = name

\* The text at p starts with the two characters a, b
StartsWith(src, p, a, b) ==
    /\ p # End(src)
    /\ p + 1 # End(src)
    /\ src[p] = a
    /\ src[p + 1] = b

\* The first position after p holding a character of S, 0 when there is
\* none
FirstAfter(src, p, S) ==
    IF \E k \in (p + 1)..Len(src) : src[k] \in S
    THEN CHOOSE k \in (p + 1)..Len(src) :
             /\ src[k] \in S
             /\ \A i \in (p + 1)..(k - 1) : src[i] \notin S
    ELSE 0

\* "*/" at k, k + 1, after the opener at p, with no NUL up to it
ClosedAt(src, p, k) ==
    /\ k >= p + 2
    /\ k + 1 <= Len(src)
    /\ src[k] = "*"
    /\ src[k + 1] = "/"
    /\ \A i \in (p + 2)..(k - 1) : src[i] # NUL

Closed(src, p) == \E k \in 1..Len(src) : ClosedAt(src, p, k)

\* C11: SkipComment called at "/*" throws exactly when no "*/" follows the
\* opener before the end of input or an embedded NUL (the opener's '*'
\* is not the closer's, so "/*/" throws); the error's position is the
\* opening '/' and the caller's position is left where it was; called
\* anywhere else it never throws.
UnterminatedComment ==
    After("SkipComment")
        => /\ (StartsWith(Src, OrigPos, "/", "*") /\ ~Closed(Src, OrigPos))
                 => (ErrPos = OrigPos /\ Pos = OrigPos)
           /\ (StartsWith(Src, OrigPos, "/", "*") /\ Closed(Src, OrigPos))
                 => ErrPos = 0
           /\ ~StartsWith(Src, OrigPos, "/", "*") => ErrPos = 0

UnterminatedCommentWitness ==
    /\ After("SkipComment")
    /\ Src = <<"a", "/", "*", "/">>
    /\ OrigPos = 2
    /\ ErrPos = 2
    /\ Pos = 2

\* The first CR, LF or NUL at or after p, or the end of input
LineStop(src, p) ==
    LET k == FirstAfter(src, p - 1, {"\r", "\n", NUL})
    IN  IF k = 0 THEN End(src) ELSE k

\* C16: SkipLine advances to the first CR, LF, NUL or end of input at or
\* after the start and stops there; with GoToNextLine, when it stopped at
\* a line ending, it also consumes that one ending: two characters for CR
\* directly followed by LF, one character in every other case, so of
\* LF-CR, LF-LF and CR-CR only the first is consumed.
LineSkip ==
    /\ After("SkipLine") => Pos = LineStop(Src, OrigPos)
    /\ After("SkipLine GoToNextLine")
          => \E k \in {LineStop(Src, OrigPos)} :
                 IF k = End(Src) \/ Src[k] = NUL
                 THEN Pos = k
                 ELSE IF Src[k] = "\r" /\ k + 1 # End(Src) /\ Src[k + 1] = "\n"
                 THEN Pos = k + 2
                 ELSE Pos = k + 1

LineSkipWitness ==
    /\ After("SkipLine GoToNextLine")
    /\ Src = <<"/", "/", "a", "\r", "\n", "\n", "b">>
    /\ OrigPos = 2
    /\ Pos = 6

\* C18: IsDelimiter is true of a character exactly when IsWhitespace or
\* IsNewLine is, that is for space, tab, CR and LF and for nothing else,
\* NUL included; so SkipDelimiters advances across these four characters
\* only and stops at the first other character.  The characters are those
\* SkipDelimiters has tested.
DelimiterSet ==
    After("SkipDelimiters")
        => /\ \A i \in OrigPos..Len(Src) :
                 i <= Pos
                    => /\ IsDelimiter(Src[i])
                             <=> (IsWhitespace(Src[i]) \/ IsNewLine(Src[i]))
                       /\ IsDelimiter(Src[i])
                             <=> Src[i] \in {" ", "\t", "\r", "\n"}
           /\ \A i \in OrigPos..(Pos - 1) : Src[i] \in {" ", "\t", "\r", "\n"}
           /\ Pos # End(Src) => Src[Pos] \notin {" ", "\t", "\r", "\n"}

IsCommentStart(src, p) ==
    StartsWith(src, p, "/", "/") \/ StartsWith(src, p, "/", "*")

GapSkipped == After("SkipDelimitersAndComments") /\ ErrPos = 0

GapEnd ==
    GapSkipped
        => \/ Pos = End(Src)
           \/ /\ Src[Pos] \notin {" ", "\t", "\r", "\n"}
              /\ ~IsCommentStart(Src, Pos)

GapExample ==
    (GapSkipped /\ OrigPos = 1
        /\ Src = <<"/", "*", " ", "c", "1", " ", "*", "/", " ", " ", " ",
                   "/", "/", " ", "c", "2", "\n", " ", " ", " ", "x">>)
        => (Pos = 21 /\ Src[Pos] = "x")

\* A second call right after a call that returned
GapSkippedAgain ==
    (GapSkipped /\ pc' = "SkipDelimitersAndComments")
        => (Pos' = Pos /\ ErrPos' = 0)

\* C17: where SkipDelimitersAndComments returns, the position is the end
\* of input or a character that is no delimiter and starts no "//" or
\* "/*" comment, a second call from there returns too and leaves the
\* position where it is, and a mixed run of comments and delimiters is
\* skipped as one gap.
GapSkipIdempotent == [](GapEnd /\ GapExample) /\ [][GapSkippedAgain]_vars

GapSkipWitness ==
    /\ GapSkipped
    /\ Len(Src) = 21
    /\ OrigPos = 9
    /\ Pos = 21
    /\ Src[Pos] = "x"

\* C14 as stated: called anywhere before the end of input where no "//"
\* or "/*" starts, SkipComment leaves the position and returns false; it
\* returns true only with the position at the end or at a NUL.
NotAComment ==
    After("SkipComment")
        => /\ (OrigPos # End(Src) /\ ~IsCommentStart(Src, OrigPos))
                 => (Pos = OrigPos /\ Result = <<FALSE>>)
           /\ Result = <<TRUE>> => AtEndOrNul(Src, Pos)

\* C14, amended: called at a position that is neither the end of input
\* nor an embedded NUL and where no "//" or "/*" starts, SkipComment
\* leaves the position and returns false; called at the end or at a NUL
\* it leaves the position and returns true; it returns true only with
\* the position at the end or at a NUL.
NotACommentUnlessNul ==
    After("SkipComment")
        => /\ (~AtEndOrNul(Src, OrigPos) /\ ~IsCommentStart(Src, OrigPos))
                 => (Pos = OrigPos /\ Result = <<FALSE>>)
           /\ AtEndOrNul(Src, OrigPos)
                 => (Pos = OrigPos /\ Result = <<TRUE>>)
           /\ Result = <<TRUE>> => AtEndOrNul(Src, Pos)

NotACommentWitness ==
    /\ After("SkipComment")
    /\ Src = <<" ", "/">>
    /\ OrigPos = 2
    /\ Pos = 2
    /\ Result = <<FALSE>>

\* The position after the line ending at k: CR LF is one ending
AfterLineEnding(src, k) ==
    IF src[k] = "\r" /\ k + 1 <= Len(src) /\ src[k + 1] = "\n"
    THEN k + 2
    ELSE k + 1

\* Where a "//" comment at p ends when only the characters of Stops end it:
\* after the first line ending, at the first other stop, or at the end
LineCommentEnd(src, p, Stops) ==
    LET k == FirstAfter(src, p + 1, Stops)
    IN  IF k = 0 THEN End(src)
        ELSE IF IsNewLine(src[k]) THEN AfterLineEnding(src, k)
        ELSE k

\* Where a "/*" comment at p ends: after the first "*/" behind the opener
BlockCommentEnd(src, p) ==
    2 + CHOOSE k \in 1..Len(src) :
            /\ ClosedAt(src, p, k)
            /\ \A j \in 1..(k - 1) : ~ClosedAt(src, p, j)

CommentExamples ==
    /\ (After("SkipComment") /\ OrigPos = 1
           /\ Src = <<"/", "/", " ", "a", "\n", "b">>)
          => Pos = 6
    /\ (After("SkipComment") /\ OrigPos = 1
           /\ Src = <<"/", "*", " ", "a", " ", "*", "/", "b">>)
          => Pos = 8

\* C15 as stated: a "//" comment ends after its line ending, or at the end
\* of input when no line ending follows; a "/*" comment ends right after
\* its first "*/".
CommentLanding ==
    /\ CommentExamples
    /\ (After("SkipComment") /\ StartsWith(Src, OrigPos, "/", "/"))
          => Pos = LineCommentEnd(Src, OrigPos, {"\r", "\n"})
    /\ (After("SkipComment") /\ StartsWith(Src, OrigPos, "/", "*")
           /\ ErrPos = 0)
          => Pos = BlockCommentEnd(Src, OrigPos)

\* C15, amended: SkipComment at "//" leaves the position at the first
\* character after the line ending that terminates the comment, at the
\* embedded NUL when one comes before any line ending, or at the end of
\* input when neither follows; at "/*" it leaves it right after the first
\* closing "*/".  On "// a\nb" and on "/* a */b" that is exactly at 'b'.
CommentLandingOrNul ==
    /\ CommentExamples
    /\ (After("SkipComment") /\ StartsWith(Src, OrigPos, "/", "/"))
          => Pos = LineCommentEnd(Src, OrigPos, {"\r", "\n", NUL})
    /\ (After("SkipComment") /\ StartsWith(Src, OrigPos, "/", "*")
           /\ ErrPos = 0)
          => Pos = BlockCommentEnd(Src, OrigPos)

CommentLandingWitness ==
    /\ After("SkipComment")
    /\ Src = <<"/", "/", "a", "\r", "\n", "\n", "b">>
    /\ OrigPos = 1
    /\ Pos = 6

----------------------------------------------------------------------------
(* Properties of SkipFloatNumber.  The literal starts at OrigPos; Signed   *)
(* says it starts with a sign and FirstChar is the position behind it.     *)

FloatSkipped == After("SkipFloatNumber") /\ OrigPos # End(Src)

Signed == Src[OrigPos] \in {"+", "-"}

FirstChar == IF Signed THEN OrigPos + 1 ELSE OrigPos

\* The input is exactly one of the texts of S, skipped from its start
SkippedOneOf(S) == FloatSkipped /\ OrigPos = 1 /\ Src \in S

\* The end of the run of digits that starts at p
RunEnd(src, p) ==
    CHOOSE d \in p..End(src) :
        /\ d = End(src) \/ ~IsNum(src[d])
        /\ \A i \in p..(d - 1) : IsNum(src[i])

DotAtStart == FloatSkipped /\ FirstChar # End(Src) /\ Src[FirstChar] = "."

ZeroDotExamples ==
    SkippedOneOf({<<"0", ".">>, <<"+", "0", ".">>, <<"-", "0", ".">>})
        => Pos = End(Src)

\* C19 as stated: a literal whose decimal point has no integer part
\* before it is not consumed at all, so ".5", "+.5", ".", "+." and "-."
\* leave the position at the start, while "0.", "+0." and "-0." are
\* consumed in full.
LeadingDotNotConsumed ==
    /\ DotAtStart => Pos = OrigPos
    /\ SkippedOneOf({<<".", "5">>, <<"+", ".", "5">>, <<".">>, <<"+", ".">>,
                     <<"-", ".">>})
          => Pos = OrigPos
    /\ ZeroDotExamples

\* C19, amended: a decimal point that has no integer part before it is
\* consumed only together with digits that follow it.  With no digit
\* behind the point nothing is consumed (".", "+.", "-." leave the
\* position at the start); with digits behind it the sign, the point and
\* the digits are consumed, and an 'f' or 'F' after them (".5" and "+.5"
\* are consumed in full); "0.", "+0." and "-0." are consumed in full.
LeadingDotNeedsDigits ==
    /\ DotAtStart
          => \E d \in {RunEnd(Src, FirstChar + 1)} :
                 IF d = FirstChar + 1
                 THEN Pos = OrigPos
                 ELSE IF d # End(Src) /\ Src[d] \in {"f", "F"}
                 THEN Pos = d + 1
                 ELSE Pos = d
    /\ SkippedOneOf({<<".">>, <<"+", ".">>, <<"-", ".">>}) => Pos = OrigPos
    /\ SkippedOneOf({<<".", "5">>, <<"+", ".", "5">>, <<"-", ".", "5">>})
          => Pos = End(Src)
    /\ ZeroDotExamples

LeadingDotWitness ==
    /\ SkippedOneOf({<<"+", ".", "5">>})
    /\ Pos = 4

ZeroThenDigit ==
    /\ FloatSkipped
    /\ FirstChar # End(Src)
    /\ Src[FirstChar] = "0"
    /\ FirstChar + 1 # End(Src)
    /\ IsNum(Src[FirstChar + 1])

\* C20: when the literal, behind its optional sign, starts with '0'
\* directly followed by a digit, SkipFloatNumber consumes the sign and
\* that one '0' and nothing more ("01" and "00.5" give "0"); a lone "0",
\* signed or not, is consumed as it is.
LeadingZero ==
    /\ ZeroThenDigit => Pos = FirstChar + 1
    /\ SkippedOneOf({<<"0", "1">>, <<"0", "0", ".", "5">>, <<"0">>})
          => Pos = 2
    /\ SkippedOneOf({<<"-", "0", "1">>, <<"+", "0">>}) => Pos = 3

LeadingZeroWitness ==
    /\ SkippedOneOf({<<"0", "0", ".", "5">>})
    /\ Pos = 2

\* The literal's parts as the grammar reads them from FirstChar: the
\* digits of the integer part end at IntEnd, and a '.' there with its
\* digits ends at DotEnd.
IntEnd == RunEnd(Src, FirstChar)

HasInt == IntEnd > FirstChar

DotEnd ==
    IF IntEnd # End(Src) /\ Src[IntEnd] = "."
    THEN RunEnd(Src, IntEnd + 1)
    ELSE IntEnd

\* Something is consumed up to DotEnd: an integer part, or a point with
\* digits behind it
HasMantissa == HasInt \/ DotEnd > IntEnd + 1

\* An 'e' or 'E' stands where the exponent may start
ExponentAt ==
    /\ FloatSkipped
    /\ FirstChar # End(Src)
    /\ ~ZeroThenDigit
    /\ DotEnd # End(Src)
    /\ Src[DotEnd] \in {"e", "E"}

ExponentComplete ==
    /\ HasInt
    /\ DotEnd + 1 # End(Src)
    /\ Src[DotEnd + 1] \in {"+", "-"}
    /\ DotEnd + 2 # End(Src)
    /\ IsNum(Src[DotEnd + 2])

\* The position behind p when an 'f' or 'F' stands at p, else p
WithSuffix(src, p) ==
    IF p # End(src) /\ src[p] \in {"f", "F"} THEN p + 1 ELSE p

ExponentExamples ==
    /\ SkippedOneOf({<<"1", "e", "+", "3">>,
                     <<"1", ".", "2", "e", "-", "3", "f">>})
          => Pos = End(Src)
    /\ SkippedOneOf({<<"1", "e", "3">>, <<"1", "e", "+">>}) => Pos = 2

\* C21: an exponent is consumed only when the literal has an integer part
\* and the 'e' or 'E' is followed by '+' or '-' and then a digit; then the
\* 'e', the sign and all its digits are consumed (and an 'f' behind them);
\* otherwise no character from the 'e' on is consumed and the span ends
\* where the part before the 'e' ends.
ExponentNeedsSign ==
    /\ ExponentExamples
    /\ ExponentAt
          => IF ExponentComplete
             THEN Pos = WithSuffix(Src, RunEnd(Src, DotEnd + 2))
             ELSE /\ Pos <= DotEnd
                  /\ Pos = IF HasMantissa THEN DotEnd ELSE OrigPos

ExponentWitness ==
    /\ SkippedOneOf({<<"1", ".", "2", "e", "-", "3", "f">>})
    /\ Pos = 8

\* The last character consumed is an 'f' or 'F'
SuffixConsumed ==
    /\ FloatSkipped
    /\ Pos > OrigPos
    /\ Src[Pos - 1] \in {"f", "F"}

\* The characters consumed before the suffix
BeforeSuffix == {Src[i] : i \in OrigPos..(Pos - 2)}

SuffixExamples ==
    /\ SkippedOneOf({<<"1", "f">>}) => Pos = 2
    /\ SkippedOneOf({<<"f">>, <<"+", "f">>, <<".", "f">>}) => Pos = OrigPos
    /\ SkippedOneOf({<<"1", ".", "f">>, <<"1", "E", "-", "3", "F">>,
                     <<"1", ".", "e", "+", "3", "f">>,
                     <<"1", "0", ".", "4", "e", "+", "3", "f">>})
          => Pos = End(Src)

\* C22: a trailing 'f' or 'F' is consumed only behind a literal that holds
\* a decimal point or an exponent (which is then complete: 'e', sign,
\* digit) and at least one digit; behind an integer alone it is left
\* ("1f" is consumed up to the digit), and it is never the only character
\* consumed.
SuffixNeedsFraction ==
    /\ SuffixExamples
    /\ SuffixConsumed
          => /\ BeforeSuffix \cap Digits # {}
             /\ BeforeSuffix \cap {".", "e", "E"} # {}
             /\ \A i \in OrigPos..(Pos - 2) :
                    Src[i] \in {"e", "E"}
                       => /\ Src[i + 1] \in {"+", "-"}
                          /\ IsNum(Src[i + 2])
                          /\ i + 2 <= Pos - 2
    /\ (FloatSkipped /\ HasInt /\ ~ZeroThenDigit /\ IntEnd # End(Src)
           /\ Src[IntEnd] \in {"f", "F"})
          => Pos = IntEnd

SuffixWitness ==
    /\ SkippedOneOf({<<"1", ".", "e", "+", "3", "f">>})
    /\ Pos = 7

----------------------------------------------------------------------------
(* Properties of Tokenize's errors *)

\* The handler, called at the quote at Gap.Pos, appends the StringConstant
\* whose literal lies strictly between that quote and the one at q and
\* leaves the position just after q.
StringAppended(q) ==
    /\ pc' # "failed"
    /\ Tokens' = Append(Tokens,
                    [Type |-> "StringConstant", DelimStart |-> Pos,
                     DelimEnd |-> Gap.Pos, LiteralStart |-> Gap.Pos + 1,
                     LiteralEnd |-> q])
    /\ Literal(Src, Last(Tokens')) = SubSeq(Src, Gap.Pos + 1, q - 1)
    /\ Pos' = q + 1

StringFailed ==
    /\ pc' = "failed"
    /\ ErrPos' = Gap.Pos
    /\ Tokens' = Tokens

StringStepAnyQuote ==
    CalledAt("\"")
        => \E q \in {FirstAfter(Src, Gap.Pos, {"\""})} :
               IF q = 0 THEN StringFailed ELSE StringAppended(q)

\* C12 as stated: a quote with no later quote fails at the opening quote;
\* a quote with a later quote gives the StringConstant that ends at the
\* first later quote, whatever lies between them.
StringToNextQuote == [][StringStepAnyQuote]_vars

StringStep ==
    CalledAt("\"")
        => \E q \in {FirstAfter(Src, Gap.Pos, {"\"", NUL})} :
               IF q = 0 \/ Src[q] = NUL
               THEN StringFailed
               ELSE StringAppended(q)

\* C12, amended: the scan for the closing quote also stops at an embedded
\* NUL.  A quote with no later quote before the end of input or the first
\* later NUL fails at the opening quote and appends nothing; otherwise the
\* StringConstant's literal is the text strictly between the opening quote
\* and the first later quote, and scanning resumes just after that quote.
StringToNextQuoteOrNul == [][StringStep]_vars

StringWitness ==
    /\ pc = "failed"
    /\ Src = <<"\"", "a", "\"", "\"">>
    /\ Len(Tokens) = 2
    /\ Tokens[2].Type = "StringConstant"
    /\ Literal(Src, Tokens[2]) = <<"a">>
    /\ ErrPos = 4

\* The error's position is the opening '/' of a comment that is not
\* closed or a quote with no closing quote.
IsErrorAt(src, e) ==
    /\ e \in 1..Len(src)
    /\ \/ StartsWith(src, e, "/", "*") /\ ~Closed(src, e)
       \/ /\ src[e] = "\""
          /\ \E q \in {FirstAfter(src, e, {"\"", NUL})} :
                 q = 0 \/ src[q] = NUL

NoResultOnFailure ==
    pc = "failed"
        => /\ Result = <<>>
           /\ Out = <<>>
           /\ IsErrorAt(Src, ErrPos)

\* C13: once a parse error is raised Tokenize has failed for good: it
\* returns no token sequence and nothing is rebuilt, however many tokens
\* were pushed before, no step follows the failure, and the error
\* reported is the unterminated comment or string that raised it.
NoPartialResult == []NoResultOnFailure /\ [][pc # "failed"]_vars

NoPartialResultWitness ==
    /\ pc = "failed"
    /\ Len(Tokens) = 3
    /\ Result = <<>>
    /\ ErrPos = Len(Src)
    /\ Src[ErrPos] = "\""

----------------------------------------------------------------------------
(* Properties of FindFunction.  The range searched is Start..Len(Result),  *)
(* Start being OrigPos, and the Name is Out.                               *)

Located == After("FindFunction") /\ Out # <<>>

EndToken == Len(Result) + 1

Delta(Type) ==
    IF Type \in {"OpenBrace", "OpenParen", "OpenSquareBracket",
                 "OpenAngleBracket"}
    THEN 1
    ELSE IF Type \in {"ClosingBrace", "ClosingParen", "ClosingSquareBracket",
                      "ClosingAngleBracket"}
    THEN -1
    ELSE 0

\* The bracket depth accumulated over the tokens Start..i-1
RECURSIVE DepthBefore(_, _, _)
DepthBefore(tokens, Start, i) ==
    IF i <= Start
    THEN 0
    ELSE DepthBefore(tokens, Start, i - 1) + Delta(tokens[i - 1].Type)

\* The depth is negative somewhere up to token i - 1
NegativeBefore(tokens, Start, i) ==
    \E j \in (Start + 1)..i : DepthBefore(tokens, Start, j) < 0

\* What the claim asks of T apart from the token before it
NamedAtDepthZero(i) ==
    /\ DepthBefore(Result, OrigPos, i) = 0
    /\ Result[i].Type = "Identifier"
    /\ Literal(Src, Result[i]) = Out
    /\ i + 1 # EndToken
    /\ Result[i + 1].Type = "OpenParen"

\* The least index of S, EndToken when S is empty
FirstOf(S) ==
    IF S = {} THEN EndToken ELSE CHOOSE i \in S : \A j \in S : i <= j

QualifiesAsStated(i) ==
    /\ NamedAtDepthZero(i)
    /\ i # OrigPos => Result[i - 1].Type = "Identifier"

Qualifies(i) ==
    /\ NamedAtDepthZero(i)
    /\ ~NegativeBefore(Result, OrigPos, i)
    /\ i # OrigPos
    /\ Result[i - 1].Type = "Identifier"

\* The tokens of "int foo(int x) { bar(); } int bar() {}": the call of bar
\* is token 9, the definition token 15 and the "int" before it token 14.
\* The caller's classifier decides which of them are Identifiers.
BarExample ==
    (Located /\ Len(Src) = 38 /\ Out = <<"b", "a", "r">> /\ OrigPos = 1)
        => /\ Pos # 9
           /\ Pos = IF /\ Result[14].Type = "Identifier"
                       /\ Result[15].Type = "Identifier"
                    THEN 15
                    ELSE EndToken

\* C23 as stated: FindFunction returns the first token at depth zero that
\* is an Identifier named Name, is followed by an OpenParen and, unless it
\* is the first of the range, follows an Identifier; End when there is
\* none.
FunctionLocatedAsStated ==
    /\ BarExample
    /\ Located
          => Pos = FirstOf({i \in OrigPos..Len(Result) : QualifiesAsStated(i)})

\* C23, amended: FindFunction returns the first token T of the range such
\* that the depth accumulated over the tokens before T is zero and was
\* never negative, T is an Identifier named Name, the token after T is in
\* the range and is an OpenParen, and T is not the first token of the
\* range and the token before it is an Identifier; End when there is none.
\* In the example it returns the definition of bar when that token and
\* the "int" before it are Identifiers, and never the call inside the
\* braces.
FunctionLocated ==
    /\ BarExample
    /\ Located
          => Pos = FirstOf({i \in OrigPos..Len(Result) : Qualifies(i)})
    /\ (After("FindFunction") /\ Out = <<>>) => Pos = EndToken

FunctionLocatedWitness ==
    /\ Located
    /\ Len(Src) = 38
    /\ Out = <<"b", "a", "r">>
    /\ OrigPos = 1
    /\ Pos = 15

\* The brackets of the range searched
BracketsOf(Kinds) ==
    {i \in OrigPos..Len(Result) : Result[i].Type \in Kinds}

\* The range has opening brackets and none of them is closed
NeverClosed ==
    /\ After("FindFunction")
    /\ BracketsOf(OpenBrackets) # {}
    /\ BracketsOf(ClosingBrackets) = {}

\* The tokens of "int foo( { ": "int" is token 2 and "foo" token 3
FooExample ==
    /\ NeverClosed
    /\ Len(Src) = 11
    /\ OrigPos = 1
    /\ Result[2].Type = "Identifier"
    /\ Result[3].Type = "Identifier"

\* C24 as stated: when the opening brackets of the range are never closed,
\* FindFunction reports an imbalance and returns End, whatever the name.
UnclosedReported ==
    NeverClosed => ErrPos # 0 /\ Pos = EndToken

\* C24, amended: when the opening brackets of the range are never closed,
\* FindFunction reports nothing and returns the first qualifying token in
\* front of the first opening bracket, End when there is none; on the
\* tokens of "int foo( { " with "int" and "foo" Identifiers it returns
\* foo for the name foo and End for every other name.
UnclosedNotReported ==
    /\ NeverClosed
          => /\ ErrPos = 0
             /\ Pos = FirstOf({i \in OrigPos..Len(Result) :
                                  /\ i < FirstOf(BracketsOf(OpenBrackets))
                                  /\ Qualifies(i)})
    /\ FooExample
          => Pos = IF Out = <<"f", "o", "o">> THEN 3 ELSE EndToken

UnclosedWitness ==
    /\ FooExample
    /\ Out = <<"f", "o", "o">>
    /\ Pos = 3
    /\ ErrPos = 0

\* The first closing bracket of the range that makes the depth negative,
\* EndToken when there is none
FirstNegative ==
    FirstOf({i \in OrigPos..Len(Result) :
                DepthBefore(Result, OrigPos, i + 1) < 0})

\* The qualifying tokens of the range by the token tests alone, with the
\* depth counted over all tokens before them
QualifiesAtDepthZero(i) ==
    /\ NamedAtDepthZero(i)
    /\ i # OrigPos
    /\ Result[i - 1].Type = "Identifier"

\* C25: when a closing bracket of any kind makes the depth negative before
\* a qualifying token has been found, FindFunction returns End and reports
\* the imbalance at that bracket, also when a qualifying token follows;
\* the depth (DepthBefore) is one counter for the four kinds of bracket.
NegativeDepth ==
    (After("FindFunction") /\ Out # <<>> /\ FirstNegative # EndToken
       /\ \A i \in OrigPos..FirstNegative : ~QualifiesAtDepthZero(i))
        => /\ Pos = EndToken
           /\ ErrPos = FirstNegative

\* ")(f g(": the first token closes a bracket that was never opened and g,
\* at depth zero again, is a definition.
NegativeDepthWitness ==
    /\ After("FindFunction")
    /\ Out = <<"g">>
    /\ FirstNegative # EndToken
    /\ \E i \in (FirstNegative + 1)..Len(Result) : QualifiesAtDepthZero(i)
    /\ Pos = EndToken
    /\ ErrPos = FirstNegative

----------------------------------------------------------------------------
(* Properties of the token sequence *)

\* The characters Tokenize has a case for
HandledChars == SingleChars \cup {"#", "\""}

IdentifierStart(c) == IsAlpha(c) \/ c = "_"

\* The text of an identifier: a letter or underscore, then letters, digits
\* and underscores
IdentifierShaped(str) ==
    /\ str # <<>>
    /\ IdentifierStart(str[1])
    /\ \A i \in 1..Len(str) : IsAlnum(str[i]) \/ str[i] = "_"

\* The token appended by an iteration whose handler is called at Gap.Pos
AppendedToken(Types, LiteralEnd) ==
    /\ pc' # "failed"
    /\ Len(Tokens') = Len(Tokens) + 1
    /\ SubSeq(Tokens', 1, Len(Tokens)) = Tokens
    /\ Last(Tokens').Type \in Types
    /\ Last(Tokens').DelimStart = Pos
    /\ Last(Tokens').DelimEnd = Gap.Pos
    /\ Last(Tokens').LiteralStart = Gap.Pos
    /\ Last(Tokens').LiteralEnd = LiteralEnd
    /\ Pos' = LiteralEnd

\* The handler called at a character without a case of its own
DefaultStep ==
    \A c \in Alphabet \ HandledChars :
        CalledAt(c)
            => IF IdentifierStart(c)
               THEN AppendedToken((ClassifierTypes \ {"Undefined"})
                                      \cup {"Identifier"},
                                  IdentifierEnd(Src, Gap.Pos))
               ELSE \E PastEnd \in PastEndReads(Src, Gap.Pos) :
                        \E numEnd \in {SkipFloatNumber(Src, Gap.Pos, PastEnd)} :
                            IF numEnd # Gap.Pos
                            THEN AppendedToken({"NumericConstant"}, numEnd)
                            ELSE AppendedToken({"Undefined"}, Gap.Pos + 1)

\* The Undefined tokens of a returned sequence
UndefinedTokens ==
    pc = "done"
        => \A i \in 2..Len(Result) :
               /\ (Result[i].Type = "Undefined"
                     /\ ~(i = Len(Result) /\ IsTrailingToken(Src, Result[i])))
                      => Len(Literal(Src, Result[i])) = 1
               /\ IdentifierShaped(Literal(Src, Result[i]))
                      => Result[i].Type # "Undefined"

\* C26: called at a character without a case of its own the handler
\* appends an identifier with the classifier's type, Identifier when that
\* is Undefined, else a float literal as NumericConstant, else the one
\* character as Undefined; in a returned sequence an Undefined token other
\* than the sentinel and a last token of trailing delimiters has a literal
\* of one character, and no token with the text of an identifier is
\* Undefined.
DefaultClassification == [][DefaultStep /\ UndefinedTokens']_vars

\* ". 1a": a lone point, a number and an identifier
DefaultClassificationWitness ==
    /\ pc = "done"
    /\ Src = <<".", " ", "1", "a">>
    /\ TypesOf(Result)
          = <<"Undefined", "Undefined", "NumericConstant", "Identifier">>
    /\ LiteralsOf(Src, Result) = <<<<>>, <<".">>, <<"1">>, <<"a">>>>

\* A token keeps both ranges and is at most retyped and widened at its end
Widened(Old, New) ==
    /\ New.DelimStart = Old.DelimStart
    /\ New.DelimEnd = Old.DelimEnd
    /\ New.LiteralStart = Old.LiteralStart
    /\ New.LiteralEnd > Old.LiteralEnd

\* One step of tokenization: all tokens but the last stay as they are, and
\* either one token is appended behind an unchanged last token or the last
\* token is widened.
GrowsAtTheEnd ==
    /\ SubSeq(Tokens', 1, Len(Tokens) - 1) = SubSeq(Tokens, 1, Len(Tokens) - 1)
    /\ \/ Tokens' = Tokens
       \/ Len(Tokens') = Len(Tokens) + 1 /\ Tokens'[Len(Tokens)] = Last(Tokens)
       \/ Len(Tokens') = Len(Tokens) /\ Widened(Last(Tokens), Last(Tokens'))
    /\ pc' \in {"done", "built"} => Result' = Tokens'

\* C27: the token sequence only grows by appending; a merge changes the
\* type and literal end of the last token only, and a token that is no
\* longer the last one never changes again.
OnlyLastWidened == [][GrowsAtTheEnd]_vars

\* "a+=" and the like: a token merged behind an earlier token
OnlyLastWidenedWitness ==
    /\ pc = "split"
    /\ Len(Tokens) >= 3
    /\ Len(LastLiteral) = 2
    /\ Last(Tokens).Type = "Assignment"
    /\ Pos = Last(Tokens).LiteralEnd
    /\ Pos # End(Src)

\* The four bounds of a token in source order, within the source
Ordered(src, Token) ==
    /\ 1 <= Token.DelimStart
    /\ Token.DelimStart <= Token.DelimEnd
    /\ Token.DelimEnd <= Token.LiteralStart
    /\ Token.LiteralStart <= Token.LiteralEnd
    /\ Token.LiteralEnd <= End(src)

\* C28: in a returned sequence every token but the sentinel has
\* DelimStart <= DelimEnd <= LiteralStart <= LiteralEnd <= SourceEnd, and
\* the DelimStart of a token is not before the LiteralEnd of the token in
\* front of it.
RangeOrdering ==
    pc = "done"
        => /\ \A i \in 2..Len(Result) : Ordered(Src, Result[i])
           /\ \A i \in 2..(Len(Result) - 1) :
                  Result[i].LiteralEnd <= Result[i + 1].DelimStart

\* 'a ""': the second token has delimiters, a quote and then its literal
RangeOrderingWitness ==
    /\ pc = "done"
    /\ Len(Result) >= 3
    /\ \E i \in 3..Len(Result) :
           /\ Result[i].DelimStart < Result[i].DelimEnd
           /\ Result[i].DelimEnd < Result[i].LiteralStart
           /\ Result[i - 1].LiteralEnd = Result[i].DelimStart

----------------------------------------------------------------------------
(* Properties of all the scanners *)

Called == pc # "ready"

\* The positions at which the iterations of the last call of
\* SkipDelimitersAndComments started
LoopStarts == SkipDelimitersAndComments(Src, OrigPos).Starts

\* C29: no scanner moves the position backward or past End, also when it
\* throws; each iteration of SkipDelimitersAndComments but the last starts
\* further on than the one before, so there are at most length + 1 of
\* them; and SkipFloatNumber leaves the position at the start when the
\* text there, behind an optional sign, has neither a digit nor a point
\* followed by a digit.
CursorBounded ==
    /\ Called => OrigPos <= Pos /\ Pos <= End(Src)
    /\ pc = "SkipDelimitersAndComments"
          => /\ Len(LoopStarts) >= 1
             /\ Len(LoopStarts) <= Len(Src) + 1
             /\ LoopStarts[1] = OrigPos
             /\ \A k \in 1..(Len(LoopStarts) - 1) :
                    LoopStarts[k] < LoopStarts[k + 1]
             /\ LoopStarts[Len(LoopStarts)] <= Pos
    /\ (FloatSkipped /\ ~HasMantissa) => Pos = OrigPos
    /\ (After("SkipFloatNumber") /\ OrigPos = End(Src)) => Pos = OrigPos

\* "/* c1 */   // c2\n   x": the loop runs four times, and the last
\* iteration, at x, skips nothing
CursorBoundedWitness ==
    /\ pc = "SkipDelimitersAndComments"
    /\ Len(Src) = 21
    /\ OrigPos = 1
    /\ Pos = 21
    /\ Len(LoopStarts) = 4
    /\ LoopStarts[4] = Pos

\* The scanners that return whether the end was reached
EndReporting ==
    {"SkipLine", "SkipLine GoToNextLine", "SkipDelimiters",
     "SkipDelimitersAndComments", "SkipIdentifier"}

\* C30: SkipLine, SkipDelimiters, SkipDelimitersAndComments and
\* SkipIdentifier return true exactly when the position they leave is End,
\* so false when they stop at a NUL before End; SkipIdentifier called at a
\* character that is neither a letter nor an underscore leaves the
\* position where it was and returns false.
EndReached ==
    /\ (pc \in EndReporting /\ ErrPos = 0)
          => /\ Result = <<Pos = End(Src)>>
             /\ (Pos # End(Src) /\ Src[Pos] = NUL) => Result = <<FALSE>>
    /\ (After("SkipIdentifier") /\ OrigPos # End(Src)
          /\ ~IdentifierStart(Src[OrigPos]))
          => Pos = OrigPos /\ Result = <<FALSE>>

\* SkipLine stopped by a NUL that is the last character of the buffer
EndReachedWitness ==
    /\ After("SkipLine")
    /\ OrigPos < Pos
    /\ Pos + 1 = End(Src)
    /\ Src[Pos] = NUL
    /\ Result = <<FALSE>>

----------------------------------------------------------------------------
(* Reads of the buffer *)

\* C31: SkipFloatNumber reads only positions before End, also when the
\* last character of the buffer is '0': the character behind a leading '0'
\* is read only where it lies in the buffer.
NoReadPastEnd ==
    After("SkipFloatNumber") => ZeroTestRead(Src, OrigPos) < End(Src)

----------------------------------------------------------------------------
(* GetContext *)

\* while (CtxStart > Start && !IsNewLine(CtxStart[-1])) --CtxStart
RECURSIVE LineStartFrom(_, _)
LineStartFrom(src, CtxStart) ==
    IF CtxStart > 1 /\ ~IsNewLine(src[CtxStart - 1])
    THEN LineStartFrom(src, CtxStart - 1)
    ELSE CtxStart

\* The loop over the lines above without the step over the '\r' of "\r\n"
RECURSIVE LinesAboveNoPair(_, _, _, _)
LinesAboveNoPair(src, CtxStart, LineAbove, NumLines) ==
    IF LineAbove < NumLines /\ CtxStart > 1
    THEN LET c2 == IF CtxStart > 1 THEN CtxStart - 1 ELSE CtxStart
         IN  [LinesAboveNoPair(src, LineStartFrom(src, c2), LineAbove + 1,
                               NumLines)
                 EXCEPT !.Verified = @ /\ IsNewLine(src[CtxStart - 1])]
    ELSE [CtxStart |-> CtxStart,
          Verified |-> (CtxStart = 1 \/ IsNewLine(src[CtxStart - 1]))]

\* The loop over the lines above: CtxStart on leaving it, and Verified
\* telling whether both VERIFY_EXPR held.
RECURSIVE LinesAbove(_, _, _, _)
LinesAbove(src, CtxStart, LineAbove, NumLines) ==
    IF LineAbove < NumLines /\ CtxStart > 1
    THEN LET c1 == IF src[CtxStart - 1] = "\n" /\ CtxStart > 2
                      /\ src[CtxStart - 2] = "\r"
                   THEN CtxStart - 1
                   ELSE CtxStart
             c2 == IF c1 > 1 THEN c1 - 1 ELSE c1
         IN  [LinesAbove(src, LineStartFrom(src, c2), LineAbove + 1, NumLines)
                 EXCEPT !.Verified = @ /\ IsNewLine(src[CtxStart - 1])]
    ELSE [CtxStart |-> CtxStart,
          Verified |-> (CtxStart = 1 \/ IsNewLine(src[CtxStart - 1]))]

\* The loop over the lines below: CtxEnd on leaving it
RECURSIVE LinesBelow(_, _, _, _)
LinesBelow(src, CtxEnd, LineBelow, NumLines) ==
    IF LineBelow < NumLines /\ CtxEnd # End(src) /\ src[CtxEnd] # NUL
    THEN LET c1 == IF src[CtxEnd] = "\r" /\ CtxEnd + 1 # End(src)
                      /\ src[CtxEnd + 1] = "\n"
                   THEN CtxEnd + 1
                   ELSE CtxEnd
             c2 == IF c1 # End(src) THEN c1 + 1 ELSE c1
         IN  LinesBelow(src, SkipLine(src, c2, FALSE).Pos, LineBelow + 1,
                        NumLines)
    ELSE CtxEnd

Spaces(n) == [i \in 1..n |-> " "]

\* GetContext taking the caret's column after SkipLine has moved Pos
GetContextCaretAtLineEnd(src, pos, NumLines) ==
    LET LineStart == LineStartFrom(src, pos)
        LinePos == SkipLine(src, pos, FALSE).Pos
        CharPos == LinePos - LineStart
        above == LinesAbove(src, LineStart, 0, NumLines)
        CtxEnd == LinesBelow(src, LinePos, 0, NumLines)
    IN  [CtxStart |-> above.CtxStart, Verified |-> above.Verified,
         CharPos |-> CharPos, Pos |-> LinePos, CtxEnd |-> CtxEnd,
         Text |-> SubSeq(src, above.CtxStart, LinePos - 1) \o <<"\n">>
                     \o Spaces(CharPos) \o <<"^">>
                     \o SubSeq(src, LinePos, CtxEnd - 1)]

\* GetContext: Text is the string returned, std::endl being "\n"; Pos is
\* the function's own copy of the position after SkipLine, CtxStart and
\* CtxEnd the bounds of the text taken from the buffer.
GetContext(src, pos, NumLines) ==
    LET LineStart == LineStartFrom(src, pos)
        CharPos == pos - LineStart
        LinePos == SkipLine(src, pos, FALSE).Pos
        above == LinesAbove(src, LineStart, 0, NumLines)
        CtxEnd == LinesBelow(src, LinePos, 0, NumLines)
    IN  [CtxStart |-> above.CtxStart, Verified |-> above.Verified,
         CharPos |-> CharPos, Pos |-> LinePos, CtxEnd |-> CtxEnd,
         Text |-> SubSeq(src, above.CtxStart, LinePos - 1) \o <<"\n">>
                     \o Spaces(CharPos) \o <<"^">>
                     \o SubSeq(src, LinePos, CtxEnd - 1)]

----------------------------------------------------------------------------
(* GetContext called by a caller that holds a buffer and a position in it: *)
(* Pos is the caller's position, passed by value, OrigPos its value before *)
(* the call, Result the NumLines passed and Out the string returned.       *)

MaxCtxLen == 5

MaxNumLines == 2

CtxAlphabet == {"a", "\n", "\r", NUL}

CtxExamples ==
    {<<"a", "\r", "\n", "a", "a", "\r", "\n", "a">>,
     <<"a", "\n", "a", "\n", "a", "a", "\n", "a", "\n", "a">>,
     <<"a", "\r", "\n", "\r", "\n", "a", "a", "\r", "\n", "\r", "\n", "a">>}

InitCtx ==
    /\ Src \in SeqsUpTo(CtxAlphabet, MaxCtxLen) \cup CtxExamples
    /\ Pos \in 1..End(Src)
    /\ OrigPos = 0
    /\ Tokens = <<>>
    /\ pc = "ready"
    /\ ErrPos = 0
    /\ Result = <<>>
    /\ Out = <<>>

CallGetContext ==
    \E NumLines \in 0..MaxNumLines :
        \E r \in {GetContext(Src, Pos, NumLines)} :
            /\ pc' = "GetContext"
            /\ OrigPos' = Pos
            /\ Result' = <<NumLines>>
            /\ Out' = r.Text
            /\ UNCHANGED <<Src, Pos, Tokens, ErrPos>>

NextCtx == CallGetContext

SpecCtx == InitCtx /\ [][NextCtx]_vars

----------------------------------------------------------------------------
(* Properties of GetContext.  The position passed is OrigPos and the       *)
(* string returned is Out.                                                 *)

ContextShown == pc = "GetContext"

NumLinesPassed == Result[1]

\* The start of the line that holds OrigPos: the nearest position at or
\* before it that is the start of the buffer or directly follows a CR or
\* LF
ErrLineStart ==
    CHOOSE p \in 1..OrigPos :
        /\ p = 1 \/ IsNewLine(Src[p - 1])
        /\ \A q \in (p + 1)..OrigPos : ~IsNewLine(Src[q - 1])

\* Where the line that holds OrigPos is cut off: at its CR or LF, at a
\* NUL or at the end of the buffer
ErrLineStop == LineStop(Src, OrigPos)

\* The index of the caret in Out; the buffers have no '^' of their own.
CaretAt == CHOOSE i \in 1..Len(Out) : Out[i] = "^"

CaretColumn == OrigPos - ErrLineStart

\* The index in Out of the "\n" that ends the text before the caret line
BreakAt == CaretAt - CaretColumn - 1

\* The caret line: a line break, CaretColumn spaces, the caret, and then
\* the end of the string or the line ending of the buffer; the line in
\* front of it is the line of OrigPos.
CaretLine ==
    ContextShown
        => /\ \E i \in 1..Len(Out) : Out[i] = "^"
           /\ BreakAt >= 1
           /\ Out[BreakAt] = "\n"
           /\ SubSeq(Out, BreakAt + 1, CaretAt - 1) = Spaces(CaretColumn)
           /\ CaretAt = Len(Out) \/ IsNewLine(Out[CaretAt + 1])
           /\ BreakAt - 1 >= ErrLineStop - ErrLineStart
           /\ SubSeq(Out, BreakAt - (ErrLineStop - ErrLineStart), BreakAt - 1)
                 = SubSeq(Src, ErrLineStart, ErrLineStop - 1)
           /\ \/ BreakAt - 1 = ErrLineStop - ErrLineStart
              \/ IsNewLine(Out[BreakAt - 1 - (ErrLineStop - ErrLineStart)])

\* The call leaves the buffer and the caller's position as they were
ContextReadOnly ==
    pc' = "GetContext" => Src' = Src /\ Pos' = Pos /\ OrigPos' = Pos

\* C32: GetContext emits, on the line directly below the line of Pos,
\* exactly k spaces and then '^', k being the number of characters between
\* the start of that line (the nearest position at or before Pos that is
\* Start or directly follows a CR or LF) and Pos; it changes neither the
\* buffer nor the caller's position.
CaretBelowColumn == []CaretLine /\ [][ContextReadOnly]_vars

\* "a\r\naa\r\na" with the position at the second a of the middle line
CaretBelowColumnWitness ==
    /\ ContextShown
    /\ Src = <<"a", "\r", "\n", "a", "a", "\r", "\n", "a">>
    /\ OrigPos = 5
    /\ NumLinesPassed = 1
    /\ Out = <<"a", "\r", "\n", "a", "a", "\n", " ", "^", "\r", "\n", "a">>

\* The window of the buffer that Out shows, read off Out: the text in
\* front of the caret line ends where the line of OrigPos is cut off, and
\* the text behind the caret starts there.
WindowStart == ErrLineStop - (BreakAt - 1)

WindowEnd == ErrLineStop + (Len(Out) - CaretAt)

\* The line boundaries among the positions a..b-1 of the buffer, a CR
\* directly followed by LF inside the range being one boundary
BreaksIn(a, b) ==
    Cardinality({i \in a..(b - 1) :
                    /\ IsNewLine(Src[i])
                    /\ ~(Src[i] = "\n" /\ i > a /\ Src[i - 1] = "\r")})

\* The position lies between the CR and the LF of a pair
InsidePair(p) ==
    /\ p > 1
    /\ p # End(Src)
    /\ Src[p - 1] = "\r"
    /\ Src[p] = "\n"

\* The end of the buffer as the lines below see it: the first NUL at or
\* after p, or End
NulOrEnd(p) ==
    LET k == FirstAfter(Src, p - 1, {NUL}) IN IF k = 0 THEN End(Src) ELSE k

Smaller(a, b) == IF a < b THEN a ELSE b

\* C33: the text before the caret line starts at Start or directly behind
\* a CR or LF (the function's own VERIFY_EXPR holds) and holds the line of
\* Pos and the lines before it, N of them or all there are; the text
\* behind the caret holds the following lines, N of them or all there are
\* up to a NUL; a CR directly followed by LF is one boundary in both
\* directions, the window starting or ending between the two only where
\* Pos itself stands there; and the window lies within [Start, End].
ContextWindow ==
    ContextShown
        => /\ GetContext(Src, OrigPos, NumLinesPassed).Verified
           /\ 1 <= WindowStart
           /\ WindowStart <= ErrLineStart
           /\ ErrLineStop <= WindowEnd
           /\ WindowEnd <= End(Src)
           /\ WindowStart = 1 \/ IsNewLine(Src[WindowStart - 1])
           /\ SubSeq(Out, 1, BreakAt - 1)
                 = SubSeq(Src, WindowStart, ErrLineStop - 1)
           /\ SubSeq(Out, CaretAt + 1, Len(Out))
                 = SubSeq(Src, ErrLineStop, WindowEnd - 1)
           /\ BreaksIn(WindowStart, ErrLineStart)
                 = Smaller(NumLinesPassed, BreaksIn(1, ErrLineStart))
           /\ BreaksIn(ErrLineStop, WindowEnd)
                 = Smaller(NumLinesPassed,
                           BreaksIn(ErrLineStop, NulOrEnd(ErrLineStop)))
           /\ WindowEnd = End(Src) \/ IsNewLine(Src[WindowEnd])
                 \/ Src[WindowEnd] = NUL
           /\ InsidePair(WindowStart) => WindowStart = OrigPos
           /\ InsidePair(WindowEnd) => WindowEnd = OrigPos

\* Two CR-LF line endings on either side of the line of Pos, with N = 1:
\* one empty line is shown above and one below.
ContextWindowWitness ==
    /\ ContextShown
    /\ Len(Src) = 12
    /\ OrigPos = 7
    /\ NumLinesPassed = 1
    /\ WindowStart = 4
    /\ WindowEnd = 10
    /\ Out = <<"\r", "\n", "a", "a", "\n", " ", "^", "\r", "\n">>

====
